---- MODULE Spec2Model ----
(***************************************************************************)
(* Finance dashboard: statement import, ledger merge/dedup, transaction    *)
(* classification (categorize_transactions / match_vendor) and summary     *)
(* arithmetic (calculate_summary), modelled from src/app.py,               *)
(* src/utils/data_processor.py and src/utils/vendor_database.py.           *)
(*                                                                         *)
(* Strings are TLA+ strings; Python's substring test, lower(), strip(),    *)
(* split() and the regular expression \bvendor\b are computed character by *)
(* character.  A pandas frame is a sequence of rows in positional order;   *)
(* each row carries its index label in the field idx.                      *)
(***************************************************************************)
EXTENDS Integers, Sequences, FiniteSets, TLC

(***************************************************************************)
(* Python string primitives                                                *)
(***************************************************************************)

\* s[i] as a one-character string
CharAt(s, i) == SubSeq(s, i, i)

\* Python: k in d
Contains(d, k) ==
    \E i \in 1..(Len(d) - Len(k) + 1) : SubSeq(d, i, i + Len(k) - 1) = k

\* Python: any(k in d for k in keywords)
ContainsAny(d, keywords) == \E k \in keywords : Contains(d, k)

UpperLetters == "ABCDEFGHIJKLMNOPQRSTUVWXYZ"
LowerLetters == "abcdefghijklmnopqrstuvwxyz"
Digits == "0123456789"

LowerChar(c) ==
    IF \E i \in 1..Len(UpperLetters) : CharAt(UpperLetters, i) = c
    THEN CharAt(LowerLetters, CHOOSE i \in 1..Len(UpperLetters) : CharAt(UpperLetters, i) = c)
    ELSE c

\* Python: s.lower()
lower(s) ==
    LET prefix[i \in 0..Len(s)] ==
            IF i = 0 THEN "" ELSE prefix[i - 1] \o LowerChar(CharAt(s, i))
    IN  prefix[Len(s)]

IsSpace(c) == c = " " \/ c = "\t"

\* Python: s.strip()
strip(s) ==
    LET nonblank == {i \in 1..Len(s) : ~IsSpace(CharAt(s, i))}
    IN  IF nonblank = {} THEN ""
        ELSE SubSeq(s, CHOOSE i \in nonblank : \A j \in nonblank : i <= j,
                       CHOOSE i \in nonblank : \A j \in nonblank : i >= j)

\* Python: set(s.split()) - the maximal runs of non-blank characters
split(s) ==
    {SubSeq(s, i, j) : <<i, j>> \in
        {p \in (1..Len(s)) \X (1..Len(s)) :
            /\ p[1] <= p[2]
            /\ \A k \in p[1]..p[2] : ~IsSpace(CharAt(s, k))
            /\ (p[1] = 1 \/ IsSpace(CharAt(s, p[1] - 1)))
            /\ (p[2] = Len(s) \/ IsSpace(CharAt(s, p[2] + 1)))}}

\* regular expression class \w (ASCII letters, digits, underscore)
IsWordChar(c) ==
    \/ \E i \in 1..Len(LowerLetters) : CharAt(LowerLetters, i) = c
    \/ \E i \in 1..Len(UpperLetters) : CharAt(UpperLetters, i) = c
    \/ \E i \in 1..Len(Digits) : CharAt(Digits, i) = c
    \/ c = "_"

\* regular expression \b between positions p-1 and p of d
WordBoundary(d, p) ==
    LET before == p > 1 /\ p - 1 <= Len(d) /\ IsWordChar(CharAt(d, p - 1))
        after  == p >= 1 /\ p <= Len(d) /\ IsWordChar(CharAt(d, p))
    IN  before # after

\* Python: re.search(r'\b' + re.escape(k) + r'\b', d)
WholeWord(d, k) ==
    \E i \in 1..(Len(d) - Len(k) + 1) :
        /\ SubSeq(d, i, i + Len(k) - 1) = k
        /\ WordBoundary(d, i)
        /\ WordBoundary(d, i + Len(k))

Min(S) == CHOOSE x \in S : \A y \in S : x <= y

(***************************************************************************)
(* Vendor Rule Table: <<pattern, category, subcategory>> in dictionary     *)
(* order.  A key written twice in the literal keeps the position of its    *)
(* first occurrence and the value of its last one.                         *)
(***************************************************************************)
VENDOR_DATABASE == <<
    <<"amex", "Bills & Payments", "Credit Card">>,
    <<"american express", "Bills & Payments", "Credit Card">>,
    <<"mastercard", "Bills & Payments", "Credit Card">>,
    <<"visa", "Bills & Payments", "Credit Card">>,
    <<"paypal", "Shopping", "Online Services">>,
    <<"stripe", "Shopping", "Online Services">>,
    <<"square", "Shopping", "Retail">>,
    <<"venmo", "Transfer", "Money Transfer">>,
    <<"zelle", "Transfer", "Money Transfer">>,
    <<"cash app", "Transfer", "Money Transfer">>,
    <<"etoro", "Investments", "Trading Platform">>,
    <<"payward", "Savings", "Investments">>,
    <<"kraken", "Savings", "Investments">>,
    <<"direct debit", "Bills & Payments", "Direct Debit">>,
    <<"counter credit", "Income", "Deposit">>,
    <<"hmrc", "Taxes", "Income Tax">>,
    <<"hmrc gov.uk", "Bills & Payments", "Taxes">>,
    <<"tax", "Taxes", "General Tax">>,
    <<"instant saver", "Transfer", "Internal Transfer">>,
    <<"instant access", "Transfer", "Internal Transfer">>,
    <<"saver account", "Transfer", "Internal Transfer">>,
    <<"isa", "Savings", "ISA">>,
    <<"cash isa", "Savings", "ISA">>,
    <<"stocks and shares isa", "Savings", "ISA">>,
    <<"barclays", "Transfer", "Bank Transfer">>,
    <<"hsbc", "Transfer", "Bank Transfer">>,
    <<"lloyds", "Transfer", "Bank Transfer">>,
    <<"natwest", "Transfer", "Bank Transfer">>,
    <<"nationwide", "Insurance", "Auto Insurance">>,
    <<"santander", "Transfer", "Bank Transfer">>,
    <<"monzo", "Transfer", "Bank Transfer">>,
    <<"starling", "Transfer", "Bank Transfer">>,
    <<"revolut", "Transfer", "Bank Transfer">>,
    <<"bank transfer", "Transfer", "Bank Transfer">>,
    <<"direct deposit", "Income", "Salary/Wages">>,
    <<"interest", "Income", "Interest">>,
    <<"dividend", "Income", "Dividends">>,
    <<"vanguard", "Investments", "Brokerage">>,
    <<"fidelity", "Investments", "Brokerage">>,
    <<"schwab", "Investments", "Brokerage">>,
    <<"robinhood", "Investments", "Brokerage">>,
    <<"etrade", "Investments", "Brokerage">>,
    <<"td ameritrade", "Investments", "Brokerage">>,
    <<"ramco", "Income", "Business Income">>,
    <<"ramco manor park", "Income", "Business Income">>,
    <<"jn desai limited", "Income", "Business Income">>,
    <<"saver", "Transfer", "Internal Transfer">>,
    <<"astrenska", "Income", "Insurance Payout">>,
    <<"astrenska insuranc", "Income", "Insurance Payout">>,
    <<"tesco", "Food", "Groceries">>,
    <<"sainsbury", "Food", "Groceries">>,
    <<"asda", "Food", "Groceries">>,
    <<"waitrose", "Food", "Groceries">>,
    <<"morrisons", "Food", "Groceries">>,
    <<"aldi", "Food", "Groceries">>,
    <<"lidl", "Food", "Groceries">>,
    <<"kroger", "Food", "Groceries">>,
    <<"walmart", "Food", "Groceries">>,
    <<"target", "Shopping", "Department Store">>,
    <<"safeway", "Food", "Groceries">>,
    <<"trader joe", "Food", "Groceries">>,
    <<"whole foods", "Food", "Groceries">>,
    <<"costco", "Food", "Groceries">>,
    <<"sams club", "Food", "Groceries">>,
    <<"mcdonalds", "Food", "Fast Food">>,
    <<"mcdonald's", "Food", "Fast Food">>,
    <<"burger king", "Food", "Fast Food">>,
    <<"wendys", "Food", "Fast Food">>,
    <<"starbucks", "Food", "Coffee Shops">>,
    <<"costa", "Food", "Coffee Shops">>,
    <<"pret", "Food", "Coffee Shops">>,
    <<"subway", "Transportation", "Public Transit">>,
    <<"kfc", "Food", "Fast Food">>,
    <<"taco bell", "Food", "Fast Food">>,
    <<"pizza hut", "Food", "Dining">>,
    <<"dominos", "Food", "Dining">>,
    <<"domino's", "Food", "Dining">>,
    <<"chipotle", "Food", "Dining">>,
    <<"nandos", "Food", "Dining">>,
    <<"greggs", "Food", "Fast Food">>,
    <<"ubereats", "Food", "Food Delivery">>,
    <<"uber eats", "Food", "Food Delivery">>,
    <<"doordash", "Food", "Food Delivery">>,
    <<"grubhub", "Food", "Food Delivery">>,
    <<"deliveroo", "Food", "Food Delivery">>,
    <<"just eat", "Food", "Food Delivery">>,
    <<"amazon", "Shopping", "Online Shopping">>,
    <<"ebay", "Shopping", "Online Shopping">>,
    <<"etsy", "Shopping", "Online Shopping">>,
    <<"apple", "Shopping", "Electronics">>,
    <<"best buy", "Shopping", "Electronics">>,
    <<"ikea", "Shopping", "Home Furnishings">>,
    <<"wayfair", "Shopping", "Home Furnishings">>,
    <<"home depot", "Shopping", "Home Improvement">>,
    <<"lowes", "Shopping", "Home Improvement">>,
    <<"b&q", "Shopping", "Home Improvement">>,
    <<"homebase", "Shopping", "Home Improvement">>,
    <<"marshalls", "Shopping", "Clothing">>,
    <<"tj maxx", "Shopping", "Clothing">>,
    <<"tk maxx", "Shopping", "Clothing">>,
    <<"foot locker", "Shopping", "Clothing">>,
    <<"primark", "Shopping", "Clothing">>,
    <<"zara", "Shopping", "Clothing">>,
    <<"h&m", "Shopping", "Clothing">>,
    <<"asos", "Shopping", "Clothing">>,
    <<"next", "Shopping", "Clothing">>,
    <<"marks & spencer", "Shopping", "Department Store">>,
    <<"m&s", "Shopping", "Department Store">>,
    <<"john lewis", "Shopping", "Department Store">>,
    <<"argos", "Shopping", "Department Store">>,
    <<"debenhams", "Shopping", "Department Store">>,
    <<"uber", "Transportation", "Taxi">>,
    <<"lyft", "Transportation", "Taxi">>,
    <<"bolt", "Transportation", "Taxi">>,
    <<"gett", "Transportation", "Taxi">>,
    <<"free now", "Transportation", "Taxi">>,
    <<"black cab", "Transportation", "Taxi">>,
    <<"taxi", "Transportation", "Taxi">>,
    <<"tube", "Transportation", "Public Transit">>,
    <<"tfl", "Transportation", "Public Transit">>,
    <<"transport for london", "Transportation", "Public Transit">>,
    <<"train", "Transportation", "Public Transit">>,
    <<"bus", "Transportation", "Public Transit">>,
    <<"oyster", "Transportation", "Public Transit">>,
    <<"underground", "Transportation", "Public Transit">>,
    <<"avis", "Transportation", "Car Rental">>,
    <<"hertz", "Transportation", "Car Rental">>,
    <<"enterprise", "Transportation", "Car Rental">>,
    <<"zipcar", "Transportation", "Car Rental">>,
    <<"national rail", "Transportation", "Public Transit">>,
    <<"british rail", "Transportation", "Public Transit">>,
    <<"amtrak", "Transportation", "Public Transit">>,
    <<"airline", "Travel", "Flights">>,
    <<"british airways", "Travel", "Flights">>,
    <<"easyjet", "Travel", "Flights">>,
    <<"ryanair", "Travel", "Flights">>,
    <<"delta", "Travel", "Flights">>,
    <<"american airlines", "Travel", "Flights">>,
    <<"united", "Travel", "Flights">>,
    <<"southwest", "Travel", "Flights">>,
    <<"jet blue", "Travel", "Flights">>,
    <<"virgin atlantic", "Travel", "Flights">>,
    <<"emirates", "Travel", "Flights">>,
    <<"hotel", "Travel", "Accommodation">>,
    <<"hilton", "Travel", "Accommodation">>,
    <<"marriott", "Travel", "Accommodation">>,
    <<"airbnb", "Travel", "Accommodation">>,
    <<"booking.com", "Travel", "Accommodation">>,
    <<"expedia", "Travel", "Travel Services">>,
    <<"trivago", "Travel", "Travel Services">>,
    <<"rent", "Housing", "Rent">>,
    <<"mortgage", "Housing", "Mortgage">>,
    <<"council tax", "Housing", "Property Tax">>,
    <<"property tax", "Taxes", "Property Tax">>,
    <<"water", "Utilities", "Water">>,
    <<"electric", "Utilities", "Electricity">>,
    <<"electricity", "Utilities", "Electricity">>,
    <<"gas", "Utilities", "Gas">>,
    <<"heating", "Utilities", "Gas">>,
    <<"internet", "Utilities", "Internet">>,
    <<"broadband", "Utilities", "Internet">>,
    <<"wifi", "Utilities", "Internet">>,
    <<"sewage", "Utilities", "Water">>,
    <<"waste", "Utilities", "Waste Management">>,
    <<"comcast", "Utilities", "Internet">>,
    <<"xfinity", "Utilities", "Internet">>,
    <<"verizon", "Utilities", "Phone">>,
    <<"at&t", "Utilities", "Phone">>,
    <<"t-mobile", "Utilities", "Phone">>,
    <<"british gas", "Utilities", "Gas">>,
    <<"british telecom", "Utilities", "Phone">>,
    <<"bt", "Utilities", "Internet">>,
    <<"eon", "Utilities", "Electricity">>,
    <<"edf", "Utilities", "Electricity">>,
    <<"scottish power", "Utilities", "Electricity">>,
    <<"thames water", "Utilities", "Water">>,
    <<"severn trent", "Utilities", "Water">>,
    <<"virgin media", "Utilities", "Internet">>,
    <<"sky", "Utilities", "TV/Internet">>,
    <<"vodafone", "Utilities", "Phone">>,
    <<"o2", "Utilities", "Phone">>,
    <<"ee", "Utilities", "Phone">>,
    <<"three", "Utilities", "Phone">>,
    <<"giffgaff", "Utilities", "Phone">>,
    <<"sprint", "Utilities", "Phone">>,
    <<"cricket", "Utilities", "Phone">>,
    <<"boost mobile", "Utilities", "Phone">>,
    <<"netflix", "Entertainment", "Streaming Services">>,
    <<"hulu", "Entertainment", "Streaming Services">>,
    <<"disney+", "Entertainment", "Streaming Services">>,
    <<"amazon prime", "Entertainment", "Streaming Services">>,
    <<"spotify", "Entertainment", "Music">>,
    <<"apple music", "Entertainment", "Music">>,
    <<"youtube", "Entertainment", "Streaming Services">>,
    <<"youtube premium", "Entertainment", "Streaming Services">>,
    <<"hbo", "Entertainment", "Streaming Services">>,
    <<"paramount+", "Entertainment", "Streaming Services">>,
    <<"peacock", "Entertainment", "Streaming Services">>,
    <<"now tv", "Entertainment", "Streaming Services">>,
    <<"cinema", "Entertainment", "Movies">>,
    <<"odeon", "Entertainment", "Movies">>,
    <<"vue", "Entertainment", "Movies">>,
    <<"cineworld", "Entertainment", "Movies">>,
    <<"amc", "Entertainment", "Movies">>,
    <<"regal", "Entertainment", "Movies">>,
    <<"cinemark", "Entertainment", "Movies">>,
    <<"concert", "Entertainment", "Events">>,
    <<"ticketmaster", "Entertainment", "Events">>,
    <<"stubhub", "Entertainment", "Events">>,
    <<"seetickets", "Entertainment", "Events">>,
    <<"bupa", "Healthcare", "Health Insurance">>,
    <<"bupa central", "Healthcare", "Health Insurance">>,
    <<"eyecare payments", "Healthcare", "Vision">>,
    <<"eyecare", "Healthcare", "Vision">>,
    <<"aig life", "Insurance", "Life Insurance">>,
    <<"royal london", "Insurance", "Life Insurance">>,
    <<"clubwise", "Healthcare", "Fitness">>,
    <<"etika", "Healthcare", "Medical Services">>,
    <<"blue rewards", "Banking", "Rewards Program">>,
    <<"axa", "Healthcare", "Health Insurance">>,
    <<"cvs", "Healthcare", "Pharmacy">>,
    <<"walgreens", "Healthcare", "Pharmacy">>,
    <<"boots", "Healthcare", "Pharmacy">>,
    <<"lloyds pharmacy", "Healthcare", "Pharmacy">>,
    <<"superdrug", "Healthcare", "Pharmacy">>,
    <<"nhs", "Healthcare", "Medical Services">>,
    <<"hospital", "Healthcare", "Medical Services">>,
    <<"clinic", "Healthcare", "Medical Services">>,
    <<"doctor", "Healthcare", "Medical Services">>,
    <<"dentist", "Healthcare", "Dental">>,
    <<"optician", "Healthcare", "Vision">>,
    <<"vision express", "Healthcare", "Vision">>,
    <<"specsavers", "Healthcare", "Vision">>,
    <<"gym", "Healthcare", "Fitness">>,
    <<"fitness", "Healthcare", "Fitness">>,
    <<"pure gym", "Healthcare", "Fitness">>,
    <<"virgin active", "Healthcare", "Fitness">>,
    <<"la fitness", "Healthcare", "Fitness">>,
    <<"planet fitness", "Healthcare", "Fitness">>,
    <<"24 hour fitness", "Healthcare", "Fitness">>,
    <<"gold's gym", "Healthcare", "Fitness">>,
    <<"equinox", "Healthcare", "Fitness">>,
    <<"insurance", "Insurance", "General Insurance">>,
    <<"geico", "Insurance", "Auto Insurance">>,
    <<"state farm", "Insurance", "Auto Insurance">>,
    <<"progressive", "Insurance", "Auto Insurance">>,
    <<"allstate", "Insurance", "Auto Insurance">>,
    <<"liberty mutual", "Insurance", "Auto Insurance">>,
    <<"aviva", "Insurance", "General Insurance">>,
    <<"direct line", "Insurance", "Auto Insurance">>,
    <<"admiral", "Insurance", "Auto Insurance">>,
    <<"churchill", "Insurance", "Home Insurance">>,
    <<"hastings", "Insurance", "Auto Insurance">>,
    <<"legal & general", "Insurance", "Life Insurance">>,
    <<"prudential", "Insurance", "Life Insurance">>,
    <<"university", "Education", "Tuition">>,
    <<"college", "Education", "Tuition">>,
    <<"school", "Education", "Tuition">>,
    <<"student loans", "Education", "Student Loans">>,
    <<"student loan", "Education", "Student Loans">>,
    <<"sallie mae", "Education", "Student Loans">>,
    <<"navient", "Education", "Student Loans">>,
    <<"great lakes", "Education", "Student Loans">>,
    <<"nelnet", "Education", "Student Loans">>,
    <<"chegg", "Education", "Books & Supplies">>,
    <<"textbooks", "Education", "Books & Supplies">>,
    <<"coursera", "Education", "Online Courses">>,
    <<"udemy", "Education", "Online Courses">>,
    <<"skillshare", "Education", "Online Courses">>,
    <<"student finance", "Education", "Student Loans">>,
    <<"payroll", "Income", "Salary/Wages">>,
    <<"salary", "Income", "Salary/Wages">>,
    <<"wages", "Income", "Salary/Wages">>,
    <<"commission", "Income", "Commission">>,
    <<"freelance", "Income", "Self-Employment">>,
    <<"consulting", "Income", "Self-Employment">>,
    <<"upwork", "Income", "Self-Employment">>,
    <<"fiverr", "Income", "Self-Employment">>,
    <<"business", "Business", "General Business">>,
    <<"advertising", "Business", "Marketing">>,
    <<"office", "Business", "Office Supplies">>,
    <<"staples", "Business", "Office Supplies">>,
    <<"office depot", "Business", "Office Supplies">>,
    <<"quickbooks", "Business", "Accounting">>,
    <<"xero", "Business", "Accounting">>,
    <<"freshbooks", "Business", "Accounting">>,
    <<"mailchimp", "Business", "Marketing">>,
    <<"godaddy", "Business", "Web Services">>,
    <<"squarespace", "Business", "Web Services">>,
    <<"wix", "Business", "Web Services">>,
    <<"zoom", "Business", "Software & Services">>,
    <<"microsoft", "Business", "Software & Services">>,
    <<"adobe", "Business", "Software & Services">>,
    <<"google", "Business", "Software & Services">>,
    <<"atm", "Cash", "ATM Withdrawal">>,
    <<"fee", "Fees & Charges", "Service Fee">>,
    <<"interest fee", "Fees & Charges", "Interest">>,
    <<"overdraft", "Fees & Charges", "Bank Fees">>,
    <<"service charge", "Fees & Charges", "Bank Fees">>,
    <<"maintenance fee", "Fees & Charges", "Bank Fees">>,
    <<"late fee", "Fees & Charges", "Late Payment">>,
    <<"irs", "Taxes", "Income Tax">>,
    <<"income tax", "Taxes", "Income Tax">>,
    <<"charity", "Giving", "Charitable Donations">>,
    <<"donation", "Giving", "Charitable Donations">>,
    <<"gift", "Giving", "Gifts">>,
    <<"birthday", "Giving", "Gifts">>,
    <<"wedding", "Giving", "Gifts">>
>>

Pattern(rule) == rule[1]
Categorization(rule) == [category |-> rule[2], subcategory |-> rule[3]]

\* Python None returned by match_vendor ("if vendor_match:" is false)
NoMatch == [category |-> "", subcategory |-> ""]

\* Python None / empty source subcategory ("not subcategory" is true)
NoHint == ""

Cat(c, s) == [category |-> c, subcategory |-> s]

\* for vendor, categorization in VENDOR_DATABASE.items(): the categorization
\* of the first table position in hits, None when there is none
FirstVendor(hits) ==
    IF hits = {} THEN NoMatch ELSE Categorization(VENDOR_DATABASE[Min(hits)])

\* if vendor in desc_lower
VendorsContained(desc_lower) ==
    {i \in 1..Len(VENDOR_DATABASE) : Contains(desc_lower, Pattern(VENDOR_DATABASE[i]))}

\* if re.search(r'\b' + re.escape(vendor) + r'\b', desc_lower)
VendorsWholeWord(desc_lower) ==
    {i \in 1..Len(VENDOR_DATABASE) : WholeWord(desc_lower, Pattern(VENDOR_DATABASE[i]))}

\* if ' ' in vendor: if vendor in desc_lower
VendorsMultiWord(desc_lower) ==
    {i \in 1..Len(VENDOR_DATABASE) :
        /\ Contains(Pattern(VENDOR_DATABASE[i]), " ")
        /\ Contains(desc_lower, Pattern(VENDOR_DATABASE[i]))}

(***************************************************************************)
(* match_vendor, token-overlap pass: one iteration of the loop over the    *)
(* table updates <<best_score, best_match, best_vendor_length>>.           *)
(***************************************************************************)
VendorOverlap(desc_words, i) ==
    Cardinality(split(Pattern(VENDOR_DATABASE[i])) \cap desc_words)

RequiredOverlap(i) ==
    IF Cardinality(split(Pattern(VENDOR_DATABASE[i]))) > 2 THEN 2 ELSE 1

\* body of the loop for the table entry at position i
PartialStep(desc_words, i, best) ==
    LET vendor == Pattern(VENDOR_DATABASE[i])
        overlap == VendorOverlap(desc_words, i)
        better == /\ \/ overlap > best.score
                     \/ (overlap = best.score /\ Len(vendor) > best.length)
                  /\ overlap >= RequiredOverlap(i)
    IN  IF better
        THEN [score |-> overlap, match |-> Categorization(VENDOR_DATABASE[i]),
              length |-> Len(vendor)]
        ELSE best

\* the loop in table order; an entry below its required overlap never
\* updates best, so only the other positions (todo) are visited
PartialMatch(desc_words) ==
    LET todo == {i \in 1..Len(VENDOR_DATABASE) :
                    VendorOverlap(desc_words, i) >= RequiredOverlap(i)}
        Nth(n) == CHOOSE i \in todo : Cardinality({j \in todo : j <= i}) = n
        best[n \in 0..Cardinality(todo)] ==
            IF n = 0 THEN [score |-> 0, match |-> NoMatch, length |-> 0]
            ELSE PartialStep(desc_words, Nth(n), best[n - 1])
    IN  best[Cardinality(todo)]

(***************************************************************************)
(* match_vendor(description, subcategory, amount)                          *)
(***************************************************************************)
\* the "counter credit" handler
CounterCredit(desc_lower) ==
    IF Contains(desc_lower, "ramco") THEN Cat("Income", "Business Income")
    ELSE IF Contains(desc_lower, "jn desai limited") THEN Cat("Income", "Business Income")
    ELSE IF Contains(desc_lower, "astrenska") THEN Cat("Income", "Insurance Payout")
    ELSE IF ContainsAny(desc_lower, {"tax", "instant saver", "instant access"})
         THEN Cat("Transfer", "Internal Transfer")
    ELSE IF ContainsAny(desc_lower, {"saver", "savings", "isa", "transfer to", "transfer from",
                                     "instant access", "desai", "jay", "bank transfer"})
         THEN Cat("Transfer", "Internal Transfer")
    ELSE IF ContainsAny(desc_lower, {"limited", "ltd", "llc"}) THEN Cat("Income", "Business Income")
    ELSE IF ContainsAny(desc_lower, {"salary", "wage", "payroll"}) THEN Cat("Income", "Salary/Wages")
    ELSE Cat("Income", "Other Income")

\* the "direct debit" handler without its final default (it falls through)
DirectDebitNoDefault(desc_lower) ==
    IF Contains(desc_lower, "bupa") THEN Cat("Healthcare", "Health Insurance")
    ELSE IF ContainsAny(desc_lower, {"american express", "amex"}) THEN Cat("Bills & Payments", "Credit Card")
    ELSE IF Contains(desc_lower, "eyecare") THEN Cat("Healthcare", "Vision")
    ELSE IF Contains(desc_lower, "aig life") THEN Cat("Insurance", "Life Insurance")
    ELSE IF Contains(desc_lower, "royal london") THEN Cat("Insurance", "Life Insurance")
    ELSE IF Contains(desc_lower, "clubwise") THEN Cat("Healthcare", "Fitness")
    ELSE IF Contains(desc_lower, "etika") THEN Cat("Entertainment", "Subscription Services")
    ELSE FirstVendor(VendorsContained(desc_lower))

\* the "direct debit" handler
DirectDebit(desc_lower) ==
    IF Contains(desc_lower, "bupa") THEN Cat("Healthcare", "Health Insurance")
    ELSE IF ContainsAny(desc_lower, {"american express", "amex"}) THEN Cat("Bills & Payments", "Credit Card")
    ELSE IF Contains(desc_lower, "eyecare") THEN Cat("Healthcare", "Vision")
    ELSE IF Contains(desc_lower, "aig life") THEN Cat("Insurance", "Life Insurance")
    ELSE IF Contains(desc_lower, "royal london") THEN Cat("Insurance", "Life Insurance")
    ELSE IF Contains(desc_lower, "clubwise") THEN Cat("Healthcare", "Fitness")
    ELSE IF Contains(desc_lower, "etika") THEN Cat("Entertainment", "Subscription Services")
    ELSE LET known == FirstVendor(VendorsContained(desc_lower))
         IN  IF known # NoMatch THEN known ELSE Cat("Bills & Payments", "Direct Debit")

\* the "card purchase" handler; NoMatch when it falls through
CardPurchase(desc_lower) ==
    IF Contains(desc_lower, "apple.com") THEN Cat("Entertainment", "Subscription Services")
    ELSE IF ContainsAny(desc_lower, {"hmrc", "gov.uk"}) THEN Cat("Bills & Payments", "Tax Payments")
    ELSE IF Contains(desc_lower, "mcdonalds") THEN Cat("Food", "Fast Food")
    ELSE IF Contains(desc_lower, "sainsburys") THEN Cat("Food", "Groceries")
    ELSE NoMatch

\* the "debit" handler; NoMatch when it falls through
Debit(desc_lower) ==
    IF Contains(desc_lower, "blue rewards") THEN Cat("Bills & Payments", "Bank Fees")
    ELSE IF Contains(desc_lower, "mcdonalds") THEN Cat("Food", "Fast Food")
    ELSE IF Contains(desc_lower, "sainsburys") THEN Cat("Food", "Groceries")
    ELSE NoMatch

\* the "funds transfer" handler; NoMatch when it falls through
FundsTransfer(desc_lower) ==
    IF Contains(desc_lower, "etoro") THEN Cat("Investments", "Trading Platform")
    ELSE IF ContainsAny(desc_lower, {"hmrc", "gov.uk"}) THEN Cat("Bills & Payments", "Tax Payments")
    ELSE IF Contains(desc_lower, "tax") THEN Cat("Transfer", "Internal Transfer")
    ELSE IF Contains(desc_lower, "payward") THEN Cat("Savings", "Investments")
    ELSE IF ContainsAny(desc_lower, {"jay", "desai", "transfer to", "transfer from",
                                     "instant saver", "savings account"})
         THEN Cat("Transfer", "Internal Transfer")
    ELSE NoMatch

\* lines 417-546: the handlers selected by the (possibly inferred) subcategory
SubcategoryHandlers(desc_lower, subcategory) ==
    LET subcat_lower == lower(strip(subcategory))
        card  == IF Contains(subcat_lower, "card purchase") THEN CardPurchase(desc_lower) ELSE NoMatch
        debit == IF subcat_lower = "debit" THEN Debit(desc_lower) ELSE NoMatch
        funds == IF Contains(subcat_lower, "funds transfer") THEN FundsTransfer(desc_lower) ELSE NoMatch
    IN  IF subcategory = NoHint THEN NoMatch
        ELSE IF Contains(subcat_lower, "counter credit") THEN CounterCredit(desc_lower)
        ELSE IF Contains(subcat_lower, "direct debit") THEN DirectDebit(desc_lower)
        ELSE IF card # NoMatch THEN card
        ELSE IF debit # NoMatch THEN debit
        ELSE funds

\* lines 548-622: the rules that do not depend on the subcategory
GenericRules(desc_lower) ==
    LET direct == FirstVendor(VendorsWholeWord(desc_lower))
        contains == FirstVendor(VendorsMultiWord(desc_lower))
        partial == PartialMatch(split(desc_lower))
    IN  IF Contains(desc_lower, "instant saver")
           \/ (Contains(desc_lower, "saver") /\ Contains(desc_lower, "tax"))
        THEN Cat("Transfer", "Internal Transfer")
        ELSE IF ContainsAny(desc_lower, {"salary", "wages"}) THEN Cat("Income", "Salary/Wages")
        ELSE IF Contains(desc_lower, "dividend") THEN Cat("Income", "Dividends")
        ELSE IF Contains(desc_lower, "interest")
                /\ ~(Contains(desc_lower, "loan") \/ Contains(desc_lower, "mortgage"))
             THEN Cat("Income", "Interest")
        ELSE IF Contains(desc_lower, "refund")
             THEN IF direct # NoMatch THEN Cat(direct.category, "Refund")
                  ELSE Cat("Income", "Refund")
        ELSE IF ContainsAny(desc_lower, {"pay", "payroll", "salary", "wage", "income", "direct deposit"})
             THEN Cat("Income", "Salary/Wages")
        ELSE IF direct # NoMatch THEN direct
        ELSE IF contains # NoMatch THEN contains
        ELSE IF partial.score > 0 THEN partial.match
        ELSE NoMatch

match_vendor(description, subcategory, amount) ==
    LET desc_lower == strip(lower(description))
        subcat_lower == IF subcategory # NoHint THEN lower(subcategory) ELSE ""
        personal == /\ ContainsAny(desc_lower, {"jay", "desai", "j n desai"})
                    /\ (Contains(subcat_lower, "funds transfer") \/ Contains(desc_lower, "ft"))
        inferred == IF subcategory = NoHint \/ subcategory = "Other"
                    THEN IF ContainsAny(desc_lower, {"ddr", "direct debit", " dd"})
                         THEN "Direct Debit"
                         ELSE IF ContainsAny(desc_lower, {"bcc", "card purchase", "cpm"})
                              THEN "Card Purchase"
                              ELSE subcategory
                    ELSE subcategory
        handled == SubcategoryHandlers(desc_lower, inferred)
    IN  IF description = "" THEN NoMatch
        ELSE IF ContainsAny(desc_lower, {"etoro", "trading 212", "coinbase", "binance"})
             THEN Cat("Investments", "Trading Platform")
        ELSE IF Contains(desc_lower, "payward") \/ Contains(desc_lower, "kraken")
             THEN Cat("Savings", "Investments")
        ELSE IF personal /\ Contains(desc_lower, "tax")
             THEN Cat("Transfer", "Internal Transfer")
        ELSE IF personal /\ ~Contains(desc_lower, "richard") /\ ~Contains(desc_lower, "fairchild")
             THEN Cat("Transfer", "Internal Transfer")
        ELSE IF ContainsAny(desc_lower, {"instant saver", "savings account", "isa", "current account"})
             THEN Cat("Transfer", "Internal Transfer")
        ELSE IF handled # NoMatch THEN handled
        ELSE GenericRules(desc_lower)

(***************************************************************************)
(* Values of the model                                                     *)
(***************************************************************************)

\* pandas NaT (a date that could not be parsed, errors='coerce')
NaT == 0

\* pandas NaN (a missing amount); every comparison with it is false
NaN == 99

Amounts == {-1, 1}

\* cleaned descriptions that occur in statements
Descriptions == {"lunch", "xyz", "credit", "payward saver"}

\* further cleaned descriptions, classified in calls of categorize_transactions
\* made on their own
LibDescriptions == {"etoro", "etoro saver", "royal lunch"}

ClassifiedDescriptions == Descriptions \cup LibDescriptions

\* the subcategory values a row of result_df can hold when match_vendor is
\* called: the initial 'Other' and the two values written by the pre-pass
PassedHints == {NoHint, "Other", "Investments", "Internal Transfer"}

\* the numbers of rows of the parsed statements
BatchLengths == {1, 2}

\* rows in the ledger
MaxLedger == 2

\* records in imported_statements
MaxStatements == 2

\* the seconds at which "Process Statement" is clicked
Seconds == {1, 2}

FileNames == {"a.csv"}

(***************************************************************************)
(* st.session_state.categories (src/app.py)                                *)
(***************************************************************************)
DefaultCategories ==
    [c \in {"Income", "Housing", "Transportation", "Food", "Healthcare", "Entertainment",
            "Shopping", "Education", "Travel", "Savings", "Miscellaneous"} |->
        CASE c = "Income" -> <<"Salary", "Bonus", "Interest", "Dividends", "Other Income">>
          [] c = "Housing" -> <<"Rent", "Mortgage", "Utilities", "Maintenance", "Insurance">>
          [] c = "Transportation" -> <<"Car Payment", "Fuel", "Public Transit", "Maintenance", "Insurance">>
          [] c = "Food" -> <<"Groceries", "Dining Out", "Delivery", "Snacks">>
          [] c = "Healthcare" -> <<"Insurance", "Medications", "Doctor Visits", "Gym Membership">>
          [] c = "Entertainment" -> <<"Movies", "Streaming Services", "Hobbies", "Events">>
          [] c = "Shopping" -> <<"Clothing", "Electronics", "Home Goods", "Personal Care">>
          [] c = "Education" -> <<"Tuition", "Books", "Courses", "School Supplies">>
          [] c = "Travel" -> <<"Flights", "Hotels", "Car Rental", "Activities">>
          [] c = "Savings" -> <<"Emergency Fund", "Investments", "Retirement">>
          [] c = "Miscellaneous" -> <<"Gifts", "Donations", "Other">>]

\* the taxonomies the Categories page can save: the default one, and the
\* default one after "Delete Category: Food"
DeleteCategory(cats, name) == [c \in (DOMAIN cats) \ {name} |-> cats[c]]

EditedCategories == {DefaultCategories, DeleteCategory(DefaultCategories, "Food")}

(***************************************************************************)
(* categorize_transactions (src/utils/data_processor.py)                   *)
(***************************************************************************)
income_keywords ==
    {"salary", "wage", "payroll", "direct deposit", "payment received",
     "dividend", "interest", "refund", "cashback", "tax return", "tax refund",
     "deposit", "credit", "income", "bonus", "commission", "pension", "benefit",
     "incoming", "credit in", "paid in", "payment in", "transfer in"}

transfer_keywords ==
    {"saver", "saving", "transfer to", "transfer from", "instant saver", "instant access"}

expense_keywords ==
    {"payment to", "purchase", "fee", "charge", "bill", "debit", "withdrawal",
     "card payment", "subscription", "order", "uber", "lyft", "online payment",
     "direct debit", "transfer to", "payment out", "paid out"}

\* <<category, keywords>> in dictionary order
category_keywords == <<
    <<"Housing", {"rent", "mortgage", "home", "apartment", "electric", "water", "gas", "utility",
                  "utilities", "internet", "sewage", "waste", "homeowner", "hoa", "maintenance",
                  "repair", "lawn", "garden"}>>,
    <<"Transportation", {"gas", "gasoline", "fuel", "uber", "lyft", "taxi", "car", "auto", "vehicle",
                  "public transit", "bus", "train", "subway", "metro", "parking", "toll",
                  "maintenance", "repair", "insurance", "dmv", "registration"}>>,
    <<"Food", {"grocery", "groceries", "supermarket", "market", "food", "restaurant", "cafe",
                  "coffee", "diner", "dinner", "lunch", "breakfast", "take-out", "takeout",
                  "delivery", "grubhub", "doordash", "ubereats", "bakery", "pizza"}>>,
    <<"Healthcare", {"doctor", "hospital", "medical", "dental", "dentist", "pharmacy", "prescription",
                  "drug", "health", "insurance", "therapy", "gym", "fitness", "vitamin", "eyecare",
                  "optometrist", "eyeglasses", "contacts"}>>,
    <<"Entertainment", {"movie", "theatre", "theater", "concert", "music", "spotify", "netflix",
                  "hulu", "disney", "amazon prime", "streaming", "game", "book", "hobby",
                  "ticket", "event", "sports", "subscription"}>>,
    <<"Shopping", {"amazon", "walmart", "target", "clothing", "apparel", "department", "store",
                  "mall", "retail", "electronics", "computer", "phone", "merchandise", "ebay",
                  "online", "purchase", "shop"}>>,
    <<"Education", {"school", "university", "college", "tuition", "education", "student", "loan",
                  "book", "course", "class", "degree", "training"}>>,
    <<"Travel", {"hotel", "airbnb", "airline", "flight", "travel", "trip", "vacation",
                  "rental car", "cruise", "tour", "booking", "resort", "airport"}>>,
    <<"Savings", {"transfer", "savings", "investment", "deposit", "stock", "bond", "retirement",
                  "401k", "ira", "roth", "etf", "mutual fund"}>>,
    <<"Miscellaneous", {"gift", "donation", "charity", "fee", "interest", "tax", "insurance",
                  "subscription", "dues", "membership", "service", "misc"}>>
>>

\* amount < 0 and amount > 0 on a float column: false for NaN
Negative(amount) == amount # NaN /\ amount < 0
Positive(amount) == amount # NaN /\ amount > 0

\* lines 24-77: default initialisation and the keyword pre-pass, for one row
PrePass(description, amount) ==
    LET desc == lower(description)
        incorrect_income == Negative(amount) /\ ContainsAny(desc, income_keywords)
        payward_transactions == Contains(desc, "payward")
        internal_transfer_mask == ContainsAny(desc, transfer_keywords)
        incorrect_expense == Positive(amount) /\ ContainsAny(desc, expense_keywords)
        c1 == IF incorrect_income /\ ~payward_transactions THEN "Income" ELSE "Uncategorized"
        c2 == IF payward_transactions THEN "Savings" ELSE c1
        s2 == IF payward_transactions THEN "Investments" ELSE "Other"
        c3 == IF internal_transfer_mask THEN "Transfer" ELSE c2
        s3 == IF internal_transfer_mask THEN "Internal Transfer" ELSE s2
        c4 == IF incorrect_expense THEN "Uncategorized" ELSE c3
    IN  Cat(c4, s3)

\* lines 177-187: score of one category, and the first category with the
\* highest positive score among those present in the user's categories
Score(desc, i) == Cardinality({k \in category_keywords[i][2] : Contains(desc, k)})

BestMatch(desc, cats) ==
    LET usable == {i \in 1..Len(category_keywords) :
                      category_keywords[i][1] \in DOMAIN cats /\ Score(desc, i) > 0}
        best == {i \in usable : \A j \in usable : Score(desc, j) <= Score(desc, i)}
    IN  IF usable = {} THEN "" ELSE category_keywords[Min(best)][1]

\* lines 194-218: the subcategory for best_match; "" when none is written
BestSubcat(desc, subcats) ==
    LET Overlap(i) == Cardinality(split(lower(subcats[i])) \cap split(desc))
        direct == {i \in 1..Len(subcats) : Contains(desc, lower(subcats[i]))}
        scored == {i \in 1..Len(subcats) : Overlap(i) > 0}
        top == {i \in scored : \A j \in scored : Overlap(j) <= Overlap(i)}
    IN  IF direct # {} THEN subcats[Min(direct)]
        ELSE IF scored # {} THEN subcats[Min(top)]
        ELSE IF Len(subcats) > 0 THEN subcats[1]
        ELSE ""

\* per-description tables of the three pure steps (each is evaluated once)
PrePassOf ==
    [d \in ClassifiedDescriptions |-> [a \in Amounts \cup {0, NaN} |-> PrePass(d, a)]]

\* match_vendor never reads its amount argument
VendorMatchOf ==
    [d \in ClassifiedDescriptions |-> [h \in PassedHints |-> match_vendor(d, h, NaN)]]

KeywordMatchOf ==
    [d \in ClassifiedDescriptions |-> [cats \in EditedCategories |->
        LET best_match == BestMatch(d, cats)
        IN  [category |-> best_match,
             subcategory |-> IF best_match = "" THEN "" ELSE BestSubcat(d, cats[best_match])]]]

(***************************************************************************)
(* Frames.  A row is a record                                              *)
(*   idx              the index label of the row (pandas labels, from 0)   *)
(*   date, description, amount                                             *)
(*   category, subcategory                                                 *)
(*   raw_subcategory  the statement's own Subcategory value                *)
(*   statement_id                                                          *)
(* and a frame is the sequence of its rows in positional order.  The       *)
(* optional columns a frame has are kept beside it as a set of names.      *)
(***************************************************************************)
Positions(df) == 1..Len(df)

\* the rows at the positions in keep, in order
KeepPositions(df, keep) ==
    LET f[i \in 0..Len(df)] ==
            IF i = 0 THEN <<>>
            ELSE IF i \in keep THEN Append(f[i - 1], df[i]) ELSE f[i - 1]
    IN  f[Len(df)]

\* df.loc[idx, ['category', 'subcategory']] = c : every row labelled idx
SetByLabel(df, idx, c) ==
    [p \in Positions(df) |->
        IF df[p].idx = idx
        THEN [df[p] EXCEPT !.category = c.category, !.subcategory = c.subcategory]
        ELSE df[p]]

\* df.iloc[idx, col] = value : the row at 0-based position idx
SetCategoryByPosition(df, idx, value) ==
    [p \in Positions(df) |-> IF p = idx + 1 THEN [df[p] EXCEPT !.category = value] ELSE df[p]]

SetSubcategoryByPosition(df, idx, value) ==
    [p \in Positions(df) |-> IF p = idx + 1 THEN [df[p] EXCEPT !.subcategory = value] ELSE df[p]]

\* lines 154-161: the subcategory handed to match_vendor.  row comes from
\* result_df, whose 'subcategory' column was overwritten at line 26.
\* Result: [raised, value]; df.iloc[idx] raises IndexError out of bounds.
HintFor(df, df_columns, row) ==
    IF "subcategory" \in df_columns THEN [raised |-> FALSE, value |-> row.subcategory]
    ELSE IF "Subcategory" \in df_columns
         THEN IF row.idx + 1 > Len(df) THEN [raised |-> TRUE, value |-> NoHint]
              ELSE [raised |-> FALSE, value |-> df[row.idx + 1].raw_subcategory]
    ELSE IF "raw_subcategory" \in df_columns THEN [raised |-> FALSE, value |-> row.raw_subcategory]
    ELSE [raised |-> FALSE, value |-> NoHint]

\* lines 189-218: the keyword fallback writes its result through
\* result_df.iloc[idx, ...], idx being the index label of the row
WriteKeywordMatch(result, idx, keyword) ==
    IF keyword.category = "" THEN [raised |-> FALSE, rows |-> result]
    ELSE IF idx + 1 > Len(result) THEN [raised |-> TRUE, rows |-> result]
    ELSE IF keyword.subcategory = ""
         THEN [raised |-> FALSE, rows |-> SetCategoryByPosition(result, idx, keyword.category)]
    ELSE [raised |-> FALSE,
          rows |-> SetSubcategoryByPosition(
                       SetCategoryByPosition(result, idx, keyword.category),
                       idx, keyword.subcategory)]

\* lines 166-171: a vendor match is written through result_df.loc[idx, ...]
WriteMatch(result, idx, vendor_match, keyword) ==
    IF vendor_match # NoMatch
    THEN [raised |-> FALSE, rows |-> SetByLabel(result, idx, vendor_match)]
    ELSE WriteKeywordMatch(result, idx, keyword)

\* lines 148-218 for one row, given the subcategory read at lines 154-161
CategorizeWithHint(cats, row, result, hint) ==
    IF row.category # "Uncategorized" THEN [raised |-> FALSE, rows |-> result]
    ELSE IF hint.raised THEN [raised |-> TRUE, rows |-> result]
    ELSE WriteMatch(result, row.idx, VendorMatchOf[row.description][hint.value],
                    KeywordMatchOf[row.description][cats])

\* lines 146-218: the body of the loop for the row that iterrows() yields
\* at position p.  rows is the frame iterrows() iterates (its values are
\* read once, before the first write); result is result_df so far.
CategorizeRow(df, df_columns, cats, rows, result, p) ==
    CategorizeWithHint(cats, rows[p], result, HintFor(df, df_columns, rows[p]))

RECURSIVE CategorizeLoop(_, _, _, _, _, _)
\* the loop goes on from the outcome of one row; an exception ends it
CategorizeNext(df, df_columns, cats, rows, step, p) ==
    IF step.raised THEN step
    ELSE CategorizeLoop(df, df_columns, cats, rows, step.rows, p + 1)

CategorizeLoop(df, df_columns, cats, rows, result, p) ==
    IF p > Len(rows) THEN [raised |-> FALSE, rows |-> result]
    ELSE CategorizeNext(df, df_columns, cats, rows,
                        CategorizeRow(df, df_columns, cats, rows, result, p), p)

\* lines 24-77 on the whole frame
Initialised(df) ==
    [p \in Positions(df) |->
        [df[p] EXCEPT !.category = PrePassOf[df[p].description][df[p].amount].category,
                      !.subcategory = PrePassOf[df[p].description][df[p].amount].subcategory]]

\* lines 220-223: remaining uncategorized positive amounts become income
FinalPass(row) ==
    IF row.category = "Uncategorized" /\ Positive(row.amount)
    THEN [row EXCEPT !.category = "Income", !.subcategory = "Other Income"]
    ELSE row

\* lines 220-225 on the outcome of the loop; an exception leaves the
\* caller's frame as it was
Returned(df, looped) ==
    IF looped.raised THEN [raised |-> TRUE, rows |-> df]
    ELSE [raised |-> FALSE,
          rows |-> [p \in Positions(df) |-> FinalPass(looped.rows[p])]]

\* the loop over the initialised frame
Looped(df, df_columns, cats, initial) ==
    CategorizeLoop(df, df_columns, cats, initial, initial, 1)

\* categorize_transactions(df, categories); df_columns names the optional
\* columns of df.  Result: [raised, rows].
categorize_transactions(df, df_columns, cats) ==
    IF Len(df) = 0 THEN [raised |-> FALSE, rows |-> df]
    ELSE Returned(df, Looped(df, df_columns, cats, Initialised(df)))

(***************************************************************************)
(* Frame operations of the import handler (src/app.py)                     *)
(***************************************************************************)
DedupKey(row) == <<row.date, row.description, row.amount>>

\* pd.concat([current_data, new_data], ignore_index=True)
Concat(current_data, new_data) ==
    LET both == current_data \o new_data
    IN  [p \in Positions(both) |-> [both[p] EXCEPT !.idx = p - 1]]

\* drop_duplicates(subset=['date', 'description', 'amount'], keep='first');
\* missing values compare equal to each other
DropDuplicates(df) ==
    KeepPositions(df, {p \in Positions(df) :
                          \A q \in 1..(p - 1) : DedupKey(df[q]) # DedupKey(df[p])})

\* the rows of df whose date is d, in positional order
WithDate(df, d) == KeepPositions(df, {p \in Positions(df) : df[p].date = d})

\* sort_values('date', ascending=False): latest date first, equal dates in
\* their previous order, NaT last
RECURSIVE SortDescending(_, _)
SortDescending(df, dates) ==
    IF dates = {} THEN WithDate(df, NaT)
    ELSE LET latest == CHOOSE d \in dates : \A e \in dates : e <= d
         IN  WithDate(df, latest) \o SortDescending(df, dates \ {latest})

SortByDate(df) == SortDescending(df, {df[p].date : p \in Positions(df)} \ {NaT})

\* the filter with its comparison inverted (== for !=)
WithoutStatementInverted(df, statement_id) ==
    KeepPositions(df, {p \in Positions(df) : df[p].statement_id = statement_id})

\* st.session_state.transactions[transactions['statement_id'] != statement_id]
WithoutStatement(df, statement_id) ==
    KeepPositions(df, {p \in Positions(df) : df[p].statement_id # statement_id})

\* list.remove(x): drops the first element equal to x
ListRemove(list, x) ==
    LET first == Min({i \in 1..Len(list) : list[i] = x})
    IN  KeepPositions(list, (1..Len(list)) \ {first})

(***************************************************************************)
(* calculate_summary (src/utils/data_processor.py)                         *)
(***************************************************************************)
Abs(x) == IF x < 0 THEN -x ELSE x

\* Series.sum(): missing values are skipped
Sum(values) ==
    LET s[i \in 0..Len(values)] ==
            IF i = 0 THEN 0
            ELSE s[i - 1] + (IF values[i] = NaN THEN 0 ELSE values[i])
    IN  s[Len(values)]

AmountsOf(df) == [p \in Positions(df) |-> df[p].amount]

income_mask(row) == row.category = "Income"
payward_mask(row) == Contains(lower(row.description), "payward")
transfer_mask(row) == row.category = "Transfer"

\* lines 257-261: the income rows, negative amounts made positive
income_df(df) ==
    [p \in Positions(KeepPositions(df, {q \in Positions(df) : income_mask(df[q])})) |->
        [KeepPositions(df, {q \in Positions(df) : income_mask(df[q])})[p] EXCEPT
            !.amount = IF Negative(@) THEN Abs(@) ELSE @]]

\* line 271
transfer_df(df) == KeepPositions(df, {q \in Positions(df) : transfer_mask(df[q])})

\* line 274
investment_df(df) == KeepPositions(df, {q \in Positions(df) : payward_mask(df[q])})

\* lines 277-281: the remaining rows, positive amounts made negative
regular_expense_df(df) ==
    [p \in Positions(KeepPositions(df, {q \in Positions(df) :
            ~income_mask(df[q]) /\ ~transfer_mask(df[q]) /\ ~payward_mask(df[q])})) |->
        [KeepPositions(df, {q \in Positions(df) :
            ~income_mask(df[q]) /\ ~transfer_mask(df[q]) /\ ~payward_mask(df[q])})[p] EXCEPT
            !.amount = IF Positive(@) THEN -@ ELSE @]]

\* line 284
expense_df(df) == regular_expense_df(df) \o transfer_df(df) \o investment_df(df)

\* lines 264, 287, 290
Totals(total_income, total_expenses) ==
    [total_income |-> total_income, total_expenses |-> total_expenses,
     net_savings |-> total_income - total_expenses]

calculate_summary(df) ==
    IF Len(df) = 0 THEN Totals(0, 0)
    ELSE Totals(Sum(AmountsOf(income_df(df))), Abs(Sum(AmountsOf(expense_df(df)))))

(***************************************************************************)
(* Parsed statements: what parse_csv / parse_pdf hand to the import        *)
(* handler (src/utils/file_handler.py)                                     *)
(***************************************************************************)
NoStatement == <<>>

ParsedRow(date, description, amount, source_subcategory) ==
    [idx |-> 0, date |-> date, description |-> description, amount |-> amount,
     category |-> "", subcategory |-> source_subcategory,
     raw_subcategory |-> source_subcategory, statement_id |-> NoStatement]

\* statement lines of the fixed Barclays layout; a Date cell that does not
\* parse stays in the frame as NaT (errors='coerce', no dropna)
BarclaysRows ==
    {ParsedRow(1, "credit", -1, "Debit"),
     ParsedRow(NaT, "payward saver", -1, "Funds Transfer")}

\* statement lines of a table without a subcategory column; rows without a
\* date or an amount were dropped (dropna)
GeneralRows ==
    {ParsedRow(2, "lunch", -1, NoHint),
     ParsedRow(1, "xyz", 1, NoHint)}

\* the frames of the given lengths with rows from S
SeqsOf(S, lengths) == UNION {[1..k -> S] : k \in lengths}

\* index labels left by dropna: 0, 1, ... when no row was dropped, and
\* 1, 2, ... when the first line of the file was dropped
FirstLabels == {0, 1}

Labelled(rows, first) == [p \in Positions(rows) |-> [rows[p] EXCEPT !.idx = first + p - 1]]

BarclaysFrames ==
    {[rows |-> Labelled(rows, 0),
      columns |-> {"subcategory", "raw_subcategory"}] : rows \in SeqsOf(BarclaysRows, BatchLengths)}

GeneralFrames ==
    {[rows |-> Labelled(f[1], f[2]), columns |-> {}] :
        f \in SeqsOf(GeneralRows, BatchLengths) \X FirstLabels}

ParsedFrames == BarclaysFrames \cup GeneralFrames

\* the Subcategory values of the fixed Barclays layout used in the frames
\* classified on their own
SourceHints == {"Direct Debit", "Counter Credit", "Funds Transfer"}

LibBarclaysRows ==
    {ParsedRow(1, d, a, h) : d \in {"xyz", "etoro saver", "payward saver"},
                             a \in Amounts, h \in SourceHints}

\* amounts of the rows classified on their own: a zero amount is a value
\* to_numeric returns like any other
LibAmounts == Amounts \cup {0}

LibGeneralRows ==
    {ParsedRow(1, d, a, NoHint) : d \in {"lunch", "etoro", "royal lunch", "xyz"},
                                  a \in LibAmounts}

\* frames as the parsers return them, classified on their own
LibFrames ==
    {[rows |-> Labelled(rows, 0), columns |-> {"subcategory", "raw_subcategory"}] :
        rows \in SeqsOf(LibBarclaysRows, BatchLengths)}
    \cup {[rows |-> Labelled(f[1], f[2]), columns |-> {}] :
            f \in SeqsOf(LibGeneralRows, BatchLengths) \X FirstLabels}

(***************************************************************************)
(* State                                                                   *)
(***************************************************************************)
VARIABLES
    transactions,         \* st.session_state.transactions (rows of the frame)
    columns,              \* optional columns of st.session_state.transactions
    imported_statements,  \* st.session_state.imported_statements
    categories,           \* st.session_state.categories
    now,                  \* datetime.now(), in seconds
    handler,              \* the button whose handler ran last
    raised,               \* the call at which that handler raised, "" if none
    call                  \* the last library call made on its own: [op, args, result]

vars == <<transactions, columns, imported_statements, categories, now, handler, raised, call>>

\* no library call has been made on its own
NoCall == [op |-> "", args |-> <<>>, result |-> <<>>]

Init ==
    /\ transactions = <<>>
    /\ columns = {}
    /\ imported_statements = <<>>
    /\ categories = DefaultCategories
    /\ now = 1
    /\ handler = ""
    /\ raised = ""
    /\ call = NoCall

\* f"{uploaded_file.name}_{datetime.now().strftime('%Y%m%d%H%M%S')}"
StatementId(filename, time) == <<filename, time>>

\* some row of df has a date: df['date'].min() is then a date, and NaT
\* otherwise (NaT.date() raises)
HasDate(df) == \E p \in Positions(df) : df[p].date # NaT

\* line 130: new_data['statement_id'] = statement_id
Tagged(df, statement_id) ==
    [p \in Positions(df) |-> [df[p] EXCEPT !.statement_id = statement_id]]

\* lines 123-124: new_data['date'].min() and .max(), which skip NaT
min_date(df) ==
    CHOOSE d \in {df[p].date : p \in Positions(df)} \ {NaT} :
        \A p \in Positions(df) : df[p].date # NaT => d <= df[p].date

max_date(df) ==
    CHOOSE d \in {df[p].date : p \in Positions(df)} \ {NaT} :
        \A p \in Positions(df) : df[p].date # NaT => d >= df[p].date

\* lines 133-141: statement_info (import_date is the time of the id,
\* date_range is made of min_date and max_date)
StatementInfo(filename, time, frame) ==
    [id |-> StatementId(filename, time), filename |-> filename,
     transaction_count |-> Len(frame.rows),
     min_date |-> min_date(frame.rows), max_date |-> max_date(frame.rows)]

\* lines 146-162: combined_data, sorted by date
Combined(current_data, new_data) ==
    SortByDate(IF Len(current_data) > 0
               THEN DropDuplicates(Concat(current_data, new_data))
               ELSE new_data)

CombinedColumns(current_data, ledger_columns, frame) ==
    IF Len(current_data) > 0 THEN ledger_columns \cup frame.columns ELSE frame.columns

\* the session state after lines 144-165, given what categorize_transactions
\* did: statement_info is appended before the merge
Imported(ledger, ledger_columns, combined_columns, appended, categorized) ==
    IF categorized.raised
    THEN [transactions |-> ledger, columns |-> ledger_columns,
          imported_statements |-> appended, raised |-> "categorize_transactions"]
    ELSE [transactions |-> categorized.rows,
          columns |-> combined_columns \cup {"subcategory"},
          imported_statements |-> appended, raised |-> ""]

\* lines 119-165 of the import handler, for a non-empty parsed frame
\* Result: the values of the session state after the handler
Import(ledger, ledger_columns, statements, cats, filename, time, frame) ==
    IF ~HasDate(frame.rows)
    THEN [transactions |-> ledger, columns |-> ledger_columns,
          imported_statements |-> statements, raised |-> "min_date"]
    ELSE Imported(ledger, ledger_columns,
                  CombinedColumns(ledger, ledger_columns, frame),
                  Append(statements, StatementInfo(filename, time, frame)),
                  categorize_transactions(
                      Combined(ledger, Tagged(frame.rows, StatementId(filename, time))),
                      CombinedColumns(ledger, ledger_columns, frame), cats))

\* "Process Statement" at the given time with a file that parses to a
\* non-empty frame
ProcessStatement(filename, time, frame) ==
    /\ time \in {now, now + 1}
    /\ Len(imported_statements) < MaxStatements
    /\ \E after \in {Import(transactions, columns, imported_statements, categories,
                            filename, time, frame)} :
          /\ Len(after.transactions) <= MaxLedger
          /\ transactions' = after.transactions
          /\ columns' = after.columns
          /\ imported_statements' = after.imported_statements
          /\ raised' = after.raised
    /\ now' = time
    /\ handler' = "Process Statement"
    /\ UNCHANGED <<categories, call>>

\* "Process Statement" with a file whose parser raises: the handler's
\* except branch reports the error and the session state is left alone
ProcessUnreadable ==
    /\ handler' = "Process Statement"
    /\ raised' = "parse"
    /\ UNCHANGED <<transactions, columns, imported_statements, categories, now, call>>

\* "Remove this statement" on the i-th record of imported_statements; the
\* page renders the button after the date range of a non-empty ledger
RemoveStatement(i) ==
    /\ Len(transactions) > 0
    /\ HasDate(transactions)
    /\ i \in 1..Len(imported_statements)
    /\ LET statement == imported_statements[i]
       IN  /\ transactions' = WithoutStatement(transactions, statement.id)
           /\ imported_statements' = ListRemove(imported_statements, statement)
    /\ handler' = "Remove this statement"
    /\ raised' = ""
    /\ UNCHANGED <<columns, categories, now, call>>

\* "Clear All Data"
ClearAllData ==
    /\ Len(transactions) > 0
    /\ HasDate(transactions)
    /\ transactions' = <<>>
    /\ columns' = {}
    /\ imported_statements' = <<>>
    /\ handler' = "Clear All Data"
    /\ raised' = ""
    /\ UNCHANGED <<categories, now, call>>

\* "Save Category Changes" with the edited taxonomy
SaveCategoryChanges(edited_categories) ==
    /\ categories' = edited_categories
    /\ \E categorized \in {categorize_transactions(transactions, columns, edited_categories)} :
          /\ raised' = IF categorized.raised THEN "categorize_transactions" ELSE ""
          /\ transactions' = categorized.rows
    /\ handler' = "Save Category Changes"
    /\ UNCHANGED <<columns, imported_statements, now, call>>

\* "Apply New Category" without the mask: every row is updated
ApplyNewCategoryUnmasked(selected_desc, new_cat, new_subcat) ==
    /\ Len(transactions) > 0
    /\ \E p \in Positions(transactions) : transactions[p].description = selected_desc
    /\ new_cat \in DOMAIN categories
    /\ \E i \in 1..Len(categories[new_cat]) : categories[new_cat][i] = new_subcat
    /\ transactions' =
           [p \in Positions(transactions) |->
               [transactions[p] EXCEPT !.category = new_cat, !.subcategory = new_subcat]]
    /\ handler' = "Apply New Category"
    /\ raised' = ""
    /\ UNCHANGED <<columns, imported_statements, categories, now, call>>

\* "Apply New Category" for the selected description
ApplyNewCategory(selected_desc, new_cat, new_subcat) ==
    /\ Len(transactions) > 0
    /\ \E p \in Positions(transactions) : transactions[p].description = selected_desc
    /\ new_cat \in DOMAIN categories
    /\ \E i \in 1..Len(categories[new_cat]) : categories[new_cat][i] = new_subcat
    /\ transactions' =
           [p \in Positions(transactions) |->
               IF transactions[p].description = selected_desc
               THEN [transactions[p] EXCEPT !.category = new_cat, !.subcategory = new_subcat]
               ELSE transactions[p]]
    /\ handler' = "Apply New Category"
    /\ raised' = ""
    /\ UNCHANGED <<columns, imported_statements, categories, now, call>>

\* the description selected and the category chosen on the recategorization
\* form
RecategorizedDescriptions == {"lunch"}

RecategorizeChoices == {<<"Income", "Salary">>}

Next ==
    \/ \E filename \in FileNames, time \in Seconds, frame \in ParsedFrames :
          ProcessStatement(filename, time, frame)
    \/ ProcessUnreadable
    \/ \E i \in 1..MaxStatements : RemoveStatement(i)
    \/ ClearAllData
    \/ \E edited_categories \in EditedCategories : SaveCategoryChanges(edited_categories)
    \/ \E selected_desc \in RecategorizedDescriptions, choice \in RecategorizeChoices :
          ApplyNewCategory(selected_desc, choice[1], choice[2])

Spec == Init /\ [][Next]_vars

(***************************************************************************)
(* calculate_tax_liability (src/utils/tax_calculator.py).  Amounts are     *)
(* whole currency units and a rate is a whole number of percent, so a tax  *)
(* amount is kept in hundredths of a currency unit (amount * percent).     *)
(***************************************************************************)
\* float('inf'), the max of the highest bracket: above every income
Infinity == 1000000000

Bracket(min, max, rate) == [min |-> min, max |-> max, rate |-> rate]

\* st.session_state.tax_brackets as initialised by the app
DefaultTaxBrackets == <<
    Bracket(0, 11000, 10),
    Bracket(11000, 44725, 12),
    Bracket(44725, 95375, 22),
    Bracket(95375, 182100, 24),
    Bracket(182100, 231250, 32),
    Bracket(231250, 578125, 35),
    Bracket(578125, Infinity, 37) >>

\* sorted(tax_brackets, key=lambda x: x['min']): ascending by min, brackets
\* with equal min in their previous order
RECURSIVE SortedByMin(_, _)
SortedByMin(tax_brackets, mins) ==
    IF mins = {} THEN <<>>
    ELSE SelectSeq(tax_brackets, LAMBDA b : b.min = Min(mins))
            \o SortedByMin(tax_brackets, mins \ {Min(mins)})

sorted_brackets(tax_brackets) ==
    SortedByMin(tax_brackets, {tax_brackets[i].min : i \in 1..Len(tax_brackets)})

\* the bracket's income without the branch for an income above the bracket
income_in_bracketNoCap(bracket, remaining_income) ==
    IF remaining_income <= 0 THEN 0
    ELSE IF bracket.min <= remaining_income /\ remaining_income <= bracket.max
         THEN remaining_income - bracket.min
    ELSE 0

\* lines 26-34: the income taxed in one bracket, given the remaining income
income_in_bracket(bracket, remaining_income) ==
    IF remaining_income <= 0 THEN 0
    ELSE IF bracket.min <= remaining_income /\ remaining_income <= bracket.max
         THEN remaining_income - bracket.min
    ELSE IF remaining_income > bracket.max THEN bracket.max - bracket.min
    ELSE 0

\* lines 21-53: the body of the loop for one bracket; acc is
\* [total_tax, remaining_income, bracket_breakdown]
TaxBracketStep(bracket, acc, in_bracket) ==
    [total_tax |-> acc.total_tax + in_bracket * bracket.rate,
     remaining_income |-> acc.remaining_income - in_bracket,
     bracket_breakdown |->
        IF in_bracket > 0
        THEN Append(acc.bracket_breakdown,
                    [min |-> bracket.min, max |-> bracket.max, rate |-> bracket.rate,
                     income_in_bracket |-> in_bracket,
                     tax_amount |-> in_bracket * bracket.rate])
        ELSE acc.bracket_breakdown]

\* lines 21-57: the loop from bracket i on, left by break once no income remains
RECURSIVE TaxLoop(_, _, _)
TaxLoopNext(brackets, i, step) ==
    IF step.remaining_income <= 0 THEN step ELSE TaxLoop(brackets, i + 1, step)

TaxLoop(brackets, i, acc) ==
    IF i > Len(brackets) THEN acc
    ELSE TaxLoopNext(brackets, i,
            TaxBracketStep(brackets[i], acc,
                           income_in_bracket(brackets[i], acc.remaining_income)))

\* lines 59-67: the returned dictionary; effective_rate is
\* total_tax / annual_income * 100, kept as the fraction <<numerator, denominator>>
\* of hundredths of a percent
TaxInfo(annual_income, taxed) ==
    [annual_income |-> annual_income,
     total_tax |-> taxed.total_tax,
     effective_rate |-> IF annual_income > 0
                        THEN <<taxed.total_tax * 100, annual_income>>
                        ELSE <<0, 1>>,
     bracket_breakdown |-> taxed.bracket_breakdown]

calculate_tax_liability(annual_income, tax_brackets) ==
    TaxInfo(annual_income,
            TaxLoop(sorted_brackets(tax_brackets), 1,
                    [total_tax |-> 0, remaining_income |-> annual_income,
                     bracket_breakdown |-> <<>>]))

\* the edges and the number of brackets of the small tables, and the incomes
\* taxed against them
MaxEdge == 2
MaxBrackets == 2
MaxIncome == 4

\* rates in percent
Rates == {0, 1, 2}

SmallBrackets ==
    {b \in [min : 0..MaxEdge, max : (0..MaxEdge) \cup {Infinity}, rate : Rates] :
        b.min <= b.max}

\* the tables the Tax Settings page can hold: the default one and small ones
TaxTables == {DefaultTaxBrackets} \cup SeqsOf(SmallBrackets, 1..MaxBrackets)

\* the incomes the pages pass (the default table is called with the incomes
\* of the slider, the small tables with small incomes)
DefaultIncomes == {5000, 11000, 30000, 75000, 600000}

IncomesFor(tax_brackets) ==
    IF tax_brackets = DefaultTaxBrackets THEN DefaultIncomes ELSE 0..MaxIncome

(***************************************************************************)
(* Library calls made on their own                                         *)
(***************************************************************************)
ledger == <<transactions, columns, imported_statements, categories, now, handler, raised>>

\* the Tax pages: calculate_tax_liability(annual_income, tax_brackets)
CalculateTax(annual_income, tax_brackets) ==
    /\ call' = [op |-> "calculate_tax_liability",
                args |-> <<annual_income, tax_brackets>>,
                result |-> calculate_tax_liability(annual_income, tax_brackets)]
    /\ UNCHANGED ledger

\* lines 148-164 for one row of the frame iterrows() iterates: whether
\* match_vendor is called for it, and the subcategory argument it is given
MatchVendorArgument(df, df_columns, row) ==
    IF row.category # "Uncategorized" THEN [called |-> FALSE, subcategory |-> NoHint]
    ELSE [called |-> ~HintFor(df, df_columns, row).raised,
          subcategory |-> HintFor(df, df_columns, row).value]

MatchVendorArguments(df, df_columns, rows) ==
    [p \in Positions(rows) |-> MatchVendorArgument(df, df_columns, rows[p])]

\* categorize_transactions(df, categories) on a parsed frame; with the
\* result, the subcategory arguments the loop has for match_vendor
Categorize(frame, cats) ==
    /\ call' = [op |-> "categorize_transactions",
                args |-> <<frame, cats>>,
                result |-> categorize_transactions(frame.rows, frame.columns, cats),
                hints |-> MatchVendorArguments(frame.rows, frame.columns,
                                               Initialised(frame.rows))]
    /\ UNCHANGED ledger

\* descriptions and subcategory hints match_vendor is called with on its own
VendorDescriptions ==
    {"", "DIRECT DEBIT BUPA CENTRAL DDR", "amex bupa", "etika royal london",
     "clubwise aig life", "eyecare", "netflix", "xyz", "tesco stores",
     "etoro bupa", "bupa isa", "payward bupa", "jay ft richard bupa", "royal lunch",
     "paypal"}

VendorHints ==
    {NoHint, "Other", "Direct Debit", "DIRECT DEBIT ", "Counter Credit", "Funds Transfer"}

\* match_vendor(description, subcategory, amount)
MatchVendor(description, subcategory, amount) ==
    /\ call' = [op |-> "match_vendor",
                args |-> <<description, subcategory, amount>>,
                result |-> match_vendor(description, subcategory, amount)]
    /\ UNCHANGED ledger

\* pd.to_numeric(..., errors='coerce').fillna(0) on a cell that parsed to
\* value, NaN standing for a cell that did not parse
FillNa(value) == IF value = NaN THEN 0 ELSE value

\* parse_csv lines 254-265, for one row: the combined amount of the parsed
\* credit and debit cells
combined_amount(credit, debit) ==
    LET credit_values == FillNa(credit)
        debit_values == -1 * Abs(FillNa(debit))
        summed == credit_values + debit_values
        credited == IF credit_values # 0 THEN credit_values ELSE summed
    IN  IF debit_values # 0 THEN debit_values ELSE credited

\* parse_pdf lines 561-572, for one row: amounts = credits - debits
pdf_amounts(credit, debit) == FillNa(credit) - FillNa(debit)

\* the parsed values of a debit or credit cell
CellValues == {-2, -1, 0, 1, 2, NaN}

\* the debit/credit path of parse_csv or parse_pdf on one row
CombineDebitCredit(parser, credit, debit) ==
    /\ call' = [op |-> parser,
                args |-> <<credit, debit>>,
                result |-> IF parser = "parse_csv debit/credit"
                           THEN combined_amount(credit, debit)
                           ELSE pdf_amounts(credit, debit)]
    /\ UNCHANGED ledger

(***************************************************************************)
(* parse_csv / parse_pdf on the cells of a statement                       *)
(* (src/utils/file_handler.py).  A raw row is [Date, Amount, Debit], the   *)
(* text of its cells; a parsed row is [date, amount].  A date is the day   *)
(* number within its year, months counted as 31 days.                      *)
(***************************************************************************)
IsDigit(c) == \E i \in 1..10 : CharAt(Digits, i) = c

DigitValue(c) == (CHOOSE i \in 1..10 : CharAt(Digits, i) = c) - 1

AllDigits(cell) == Len(cell) > 0 /\ \A i \in 1..Len(cell) : IsDigit(CharAt(cell, i))

\* the value of a string of digits
RECURSIVE DigitsValue(_)
DigitsValue(cell) ==
    IF Len(cell) = 0 THEN 0
    ELSE 10 * DigitsValue(SubSeq(cell, 1, Len(cell) - 1)) + DigitValue(CharAt(cell, Len(cell)))

\* pd.to_datetime(cell, errors='coerce') on a dd/mm/yyyy cell: NaT for
\* every cell that is not a date
to_datetime(cell) ==
    IF /\ Len(cell) = 10
       /\ CharAt(cell, 3) = "/"
       /\ CharAt(cell, 6) = "/"
       /\ AllDigits(SubSeq(cell, 1, 2))
       /\ AllDigits(SubSeq(cell, 4, 5))
       /\ AllDigits(SubSeq(cell, 7, 10))
       /\ DigitsValue(SubSeq(cell, 1, 2)) \in 1..31
       /\ DigitsValue(SubSeq(cell, 4, 5)) \in 1..12
    THEN 31 * (DigitsValue(SubSeq(cell, 4, 5)) - 1) + DigitsValue(SubSeq(cell, 1, 2))
    ELSE NaT

\* whether float(cell) succeeds: an optional sign and digits
IsNumeric(cell) ==
    \/ AllDigits(cell)
    \/ Len(cell) > 1 /\ CharAt(cell, 1) = "-" /\ AllDigits(SubSeq(cell, 2, Len(cell)))

NumericValue(cell) ==
    IF CharAt(cell, 1) = "-" THEN -1 * DigitsValue(SubSeq(cell, 2, Len(cell)))
    ELSE DigitsValue(cell)

\* pd.to_numeric(cell, errors='coerce'): NaN for an empty cell and for text
to_numeric(cell) == IF IsNumeric(cell) THEN NumericValue(cell) ELSE NaN

\* str.replace(r'[$,]', '', regex=True)
RECURSIVE StripCurrency(_)
StripCurrency(cell) ==
    IF Len(cell) = 0 THEN ""
    ELSE IF CharAt(cell, 1) \in {"$", ","} THEN StripCurrency(SubSeq(cell, 2, Len(cell)))
    ELSE CharAt(cell, 1) \o StripCurrency(SubSeq(cell, 2, Len(cell)))

\* str.replace(r'[...]', '', regex=True) for a class of single characters
RECURSIVE RemoveChars(_, _)
RemoveChars(cell, chars) ==
    IF Len(cell) = 0 THEN ""
    ELSE IF CharAt(cell, 1) \in chars THEN RemoveChars(SubSeq(cell, 2, Len(cell)), chars)
    ELSE CharAt(cell, 1) \o RemoveChars(SubSeq(cell, 2, Len(cell)), chars)

\* str.replace(old, new, regex=False): every occurrence, left to right
RECURSIVE ReplaceAll(_, _, _)
ReplaceAll(cell, old, new) ==
    IF Len(cell) < Len(old) THEN cell
    ELSE IF SubSeq(cell, 1, Len(old)) = old
         THEN new \o ReplaceAll(SubSeq(cell, Len(old) + 1, Len(cell)), old, new)
    ELSE CharAt(cell, 1) \o ReplaceAll(SubSeq(cell, 2, Len(cell)), old, new)

\* str.replace(r'\((.+)\)', r'-\1', regex=True): the greedy match runs from
\* the first "(" to the last ")" with at least one character between them
Unparenthesize(cell) ==
    LET opens == {i \in 1..Len(cell) : CharAt(cell, i) = "("}
        closes == {j \in 1..Len(cell) : CharAt(cell, j) = ")"}
        pairs == {i \in opens : \E j \in closes : j > i + 1}
        first == Min(pairs)
        last == CHOOSE j \in closes : \A k \in closes : k <= j
    IN  IF pairs = {} THEN cell
        ELSE SubSeq(cell, 1, first - 1) \o "-" \o SubSeq(cell, first + 1, last - 1)
             \o SubSeq(cell, last + 1, Len(cell))

\* parse_csv lines 156-171 and 292-296, for one cell of a single amount
\* column: the cell goes to pd.to_numeric as it is
csv_single_amount(cell) == to_numeric(cell)

\* parse_pdf lines 536-547, for one cell of a single amount column
pdf_single_amount(cell) ==
    to_numeric(ReplaceAll(ReplaceAll(Unparenthesize(
        RemoveChars(cell, {",", "$", " "})), "CR", ""), "DR", "-"))

\* df['Amount'].astype(float): an empty cell is NaN, text raises ValueError
AstypeFloatRaises(raw) ==
    \E p \in Positions(raw) : raw[p].Amount # "" /\ ~IsNumeric(raw[p].Amount)

\* dropna(subset=['date']) and dropna(subset=['amount'])
DropNaDate(rows) == SelectSeq(rows, LAMBDA r : r.date # NaT)
DropNaAmount(rows) == SelectSeq(rows, LAMBDA r : r.amount # NaN)

\* parse_csv lines 24-38: the fixed Barclays layout; no row is dropped
StandardizedRows(raw) ==
    [p \in Positions(raw) |->
        [date |-> to_datetime(raw[p].Date), amount |-> to_numeric(raw[p].Amount)]]

\* parse_csv lines 166-176 and 285-296: a single amount column
SingleAmountRows(raw) ==
    DropNaAmount(DropNaDate(
        [p \in Positions(raw) |->
            [date |-> to_datetime(raw[p].Date), amount |-> to_numeric(raw[p].Amount)]]))

\* parse_csv lines 228-238: the column with the highest positive and negative
\* ratio is taken as a single amount column and the frame is returned at
\* once; a cell that is not a number stays as it is (NaN stands for it)
EarlyReturnRows(raw) ==
    [p \in Positions(raw) |->
        [date |-> to_datetime(raw[p].Date), amount |-> to_numeric(raw[p].Amount)]]

\* parse_csv lines 252-296: credit and debit columns (the Amount cell is the
\* credit)
DebitCreditRows(raw) ==
    DropNaAmount(DropNaDate(
        [p \in Positions(raw) |->
            [date |-> to_datetime(raw[p].Date),
             amount |-> combined_amount(to_numeric(StripCurrency(raw[p].Amount)),
                                        to_numeric(StripCurrency(raw[p].Debit)))]]))

\* parse_pdf lines 536-547 and 585-603: the standard processing of the tables
PdfRows(raw) ==
    DropNaAmount(DropNaDate(
        [p \in Positions(raw) |->
            [date |-> to_datetime(raw[p].Date),
             amount |-> pdf_single_amount(raw[p].Amount)]]))

\* parse_pdf lines 617-679: the simplified processing after an error; only
\* rows without a date are dropped
PdfSimpleRows(raw) ==
    DropNaDate(
        [p \in Positions(raw) |->
            [date |-> to_datetime(raw[p].Date),
             amount |-> to_numeric(StripCurrency(raw[p].Amount))]])

ParserPaths ==
    {"barclays", "single amount", "early return", "debit/credit", "pdf", "pdf simplified"}

\* the frame a parser returns along the given path: [raised, rows]
ParsedAlong(path, raw) ==
    IF path = "barclays"
    THEN IF AstypeFloatRaises(raw) THEN [raised |-> TRUE, rows |-> <<>>]
         ELSE [raised |-> FALSE, rows |-> StandardizedRows(raw)]
    ELSE IF path = "single amount" THEN [raised |-> FALSE, rows |-> SingleAmountRows(raw)]
    ELSE IF path = "early return" THEN [raised |-> FALSE, rows |-> EarlyReturnRows(raw)]
    ELSE IF path = "debit/credit" THEN [raised |-> FALSE, rows |-> DebitCreditRows(raw)]
    ELSE IF path = "pdf"
         THEN [raised |-> PdfRows(raw) = <<>>, rows |-> PdfRows(raw)]
    ELSE [raised |-> FALSE, rows |-> PdfSimpleRows(raw)]

\* the cells of the statements parsed on their own
RawRows ==
    [Date : {"01/01/2024", "02/01/2024", "n/a"}, Amount : {"-1", "$1", "", "x"},
     Debit : {"", "1"}]

\* parse_csv(file) / parse_pdf(file) on a statement with the given rows
Parse(path, raw) ==
    /\ call' = [op |-> "parse", args |-> <<path, raw>>, result |-> ParsedAlong(path, raw)]
    /\ UNCHANGED ledger

\* the cells of a single amount column parsed on their own
AmountCells == {"1", "-1", "(1)", "1CR", "1DR", "$1", "1 CR", "(1,0)", "x", ""}

\* the single-amount path of parse_csv or parse_pdf on one cell; a NaN
\* result is a row dropped by dropna(subset=['amount'])
ParseAmount(parser, cell) ==
    /\ call' = [op |-> parser,
                args |-> <<cell>>,
                result |-> IF parser = "parse_csv single amount"
                           THEN csv_single_amount(cell)
                           ELSE pdf_single_amount(cell)]
    /\ UNCHANGED ledger

(***************************************************************************)
(* parse_csv, schema sniffing (src/utils/file_handler.py lines 45-150).    *)
(* A table is the sequence of its columns; a column is [name, kind], kind  *)
(* standing for the values of its cells.  Roles are sequences of column    *)
(* positions: [date, description, amount].                                 *)
(***************************************************************************)
\* what the code reads from the cells of a column of each kind:
\*   dtype     'object' for text cells, 'float64' for numbers
\*   datelike  pd.to_datetime(sample) does not raise (it converts numbers
\*             as epoch offsets)
\*   width     mean string length of the cells
\*   numeric   more than 70% of the cells are numbers once $, commas are removed
\*   typical   the mean absolute value lies in 0.01 .. 10000
ColumnKinds ==
    [dates      |-> [dtype |-> "object",  datelike |-> TRUE,  width |-> 10, numeric |-> FALSE, typical |-> FALSE],
     long_dates |-> [dtype |-> "object",  datelike |-> TRUE,  width |-> 16, numeric |-> FALSE, typical |-> FALSE],
     text       |-> [dtype |-> "object",  datelike |-> FALSE, width |-> 20, numeric |-> FALSE, typical |-> FALSE],
     codes      |-> [dtype |-> "object",  datelike |-> FALSE, width |-> 3,  numeric |-> FALSE, typical |-> FALSE],
     numbers    |-> [dtype |-> "float64", datelike |-> TRUE,  width |-> 5,  numeric |-> TRUE,  typical |-> TRUE],
     money_text |-> [dtype |-> "object",  datelike |-> FALSE, width |-> 6,  numeric |-> TRUE,  typical |-> TRUE]]

Cells(table, i) == ColumnKinds[table[i].kind]

NoRoles == [date |-> <<>>, description |-> <<>>, amount |-> <<>>]

AllResolved(roles) ==
    roles.date # <<>> /\ roles.description # <<>> /\ roles.amount # <<>>

\* lines 49-60: the body of the loop over the headers, for column i
NameStep(table, roles, i) ==
    LET col_lower == lower(table[i].name)
    IN  IF ContainsAny(col_lower, {"date", "time", "day", "post", "memo", "transaction date"})
        THEN [roles EXCEPT !.date = Append(@, i)]
        ELSE IF ContainsAny(col_lower, {"desc", "narrative", "details", "transaction",
                                        "merchant", "payee", "name", "memo", "description"})
        THEN [roles EXCEPT !.description = Append(@, i)]
        ELSE IF ContainsAny(col_lower, {"amount", "sum", "value", "debit", "credit", "balance"})
        THEN [roles EXCEPT !.amount = Append(@, i)]
        ELSE roles

\* lines 65-99: the body of the loop over the columns, for column i (the
\* sample of every kind is non-empty and its numbers are below 100000)
ContentStep(table, roles, i) ==
    LET dated == IF roles.date = <<>> /\ Cells(table, i).datelike
                 THEN [roles EXCEPT !.date = Append(@, i)] ELSE roles
        described == IF /\ dated.description = <<>>
                        /\ Cells(table, i).dtype = "object"
                        /\ Cells(table, i).width > 10
                     THEN [dated EXCEPT !.description = Append(@, i)] ELSE dated
    IN  IF Cells(table, i).dtype = "float64"
        THEN [described EXCEPT !.amount = Append(@, i)]
        ELSE described

\* a loop over the columns from position i on
RECURSIVE NameLoop(_, _, _)
NameLoop(table, roles, i) ==
    IF i > Len(table) THEN roles ELSE NameLoop(table, NameStep(table, roles, i), i + 1)

RECURSIVE ContentLoop(_, _, _)
ContentLoop(table, roles, i) ==
    IF i > Len(table) THEN roles ELSE ContentLoop(table, ContentStep(table, roles, i), i + 1)

\* lines 45-60
name_based(table) == NameLoop(table, NoRoles, 1)

\* lines 62-99
content_based(table, roles) ==
    IF AllResolved(roles) THEN roles ELSE ContentLoop(table, roles, 1)

InSeq(x, seq) == \E k \in 1..Len(seq) : seq[k] = x

\* lines 111-144: the amount columns found by value
amounts_by_value(table, date_columns) ==
    LET potential_amount_cols ==
            SelectSeq([i \in 1..Len(table) |-> i],
                      LAMBDA i : IF Cells(table, i).dtype = "float64"
                                 THEN ~InSeq(i, date_columns)
                                 ELSE Cells(table, i).numeric)
        filtered_amount_cols ==
            SelectSeq(potential_amount_cols, LAMBDA i : Cells(table, i).typical)
    IN  IF filtered_amount_cols # <<>> THEN filtered_amount_cols ELSE potential_amount_cols

\* lines 101-146
positional(table, roles) ==
    LET date_columns == IF roles.date = <<>> THEN <<1>> ELSE roles.date
        widest == Min({i \in 1..Len(table) :
                          \A j \in 1..Len(table) : Cells(table, j).width <= Cells(table, i).width})
    IN  [date |-> date_columns,
         description |-> IF roles.description = <<>> THEN <<widest>> ELSE roles.description,
         amount |-> IF roles.amount = <<>> \/ Len(roles.amount) > 3
                    THEN amounts_by_value(table, date_columns)
                    ELSE roles.amount]

\* lines 45-150: the roles after each pass
sniffed(table) ==
    [named |-> name_based(table),
     content |-> content_based(table, name_based(table)),
     roles |-> positional(table, content_based(table, name_based(table)))]

\* headers and tables sniffed on their own
Headers == {"Date", "Details", "Amount", "Ref"}

TableLengths == {2, 3}

Tables ==
    {t \in SeqsOf([name : Headers, kind : DOMAIN ColumnKinds], TableLengths) :
        \A i, j \in 1..Len(t) : i # j => t[i].name # t[j].name}

\* parse_csv(file) up to the selection of the columns
Sniff(table) ==
    /\ call' = [op |-> "parse_csv sniff", args |-> <<table>>, result |-> sniffed(table)]
    /\ UNCHANGED ledger

(***************************************************************************)
(* clean_description(desc) (src/utils/file_handler.py lines 690-845).      *)
(* Regular expressions are matched character by character; a pattern is a *)
(* tuple naming its shape, and MatchLen gives the length of its match at a *)
(* position (0 when it does not match there).                              *)
(***************************************************************************)
\* ' '.join(s.split()): runs of blanks and tabs become one space
collapse(s) ==
    LET t == strip(s)
        out[i \in 0..Len(t)] ==
            IF i = 0 THEN ""
            ELSE IF ~IsSpace(CharAt(t, i)) THEN out[i - 1] \o CharAt(t, i)
            ELSE IF IsSpace(CharAt(t, i - 1)) THEN out[i - 1]
            ELSE out[i - 1] \o " "
    IN  out[Len(t)]

IsLetter(c) == IsWordChar(c) /\ c # "_" /\ ~IsDigit(c)

\* s[i], and "" past the ends of s
At(s, i) == IF i \in 1..Len(s) THEN CharAt(s, i) ELSE ""

\* the character classes of the patterns
InClass(class, c) ==
    IF class = "payee" THEN IsLetter(c) \/ IsDigit(c) \/ IsSpace(c) \/ c = "&"
    ELSE IF class = "digit" THEN IsDigit(c)
    ELSE IF class = "space" THEN IsSpace(c)
    ELSE IF class = "separator" THEN IsSpace(c) \/ c = "#" \/ c = ":"
    ELSE IF class = "upper" THEN \E i \in 1..Len(UpperLetters) : CharAt(UpperLetters, i) = c
    ELSE IsLetter(c)

\* the length of the longest run of characters of the class from position i
RunLen(class, s, i) ==
    IF i > Len(s) THEN 0
    ELSE CHOOSE n \in 0..Len(s) :
            /\ i + n - 1 <= Len(s)
            /\ \A k \in i..(i + n - 1) : InClass(class, CharAt(s, k))
            /\ (i + n > Len(s) \/ ~InClass(class, CharAt(s, i + n)))

\* s has the text k at position i, letter case ignored
HasAt(s, i, k) == i + Len(k) - 1 <= Len(s) /\ lower(SubSeq(s, i, i + Len(k) - 1)) = k

\* \d{lo,hi} at position i: the lengths it can take
Counts(s, i, lo, hi) == {n \in lo..hi : n <= RunLen("digit", s, i)}

Max(S) == CHOOSE x \in S : \A y \in S : y <= x

\* \d{a}<sep>\d{b}<sep>\d{c}: the greedy match among the admissible counts
NumericDateLen(s, i, sep, first, second, third) ==
    LET ok(a, b, c) == /\ a \in Counts(s, i, first[1], first[2])
                       /\ At(s, i + a) = sep
                       /\ b \in Counts(s, i + a + 1, second[1], second[2])
                       /\ At(s, i + a + 1 + b) = sep
                       /\ c \in Counts(s, i + a + b + 2, third[1], third[2])
        all == {t \in (1..4) \X (1..4) \X (1..4) : ok(t[1], t[2], t[3])}
        a1 == Max({t[1] : t \in all})
        b1 == Max({t[2] : t \in {u \in all : u[1] = a1}})
        c1 == Max({t[3] : t \in {u \in all : u[1] = a1 /\ u[2] = b1}})
    IN  IF all = {} THEN 0 ELSE a1 + b1 + c1 + 2

\* \d{1,2}\s[A-Za-z]{3}\s\d{2,4}
NamedDateLen(s, i) ==
    LET ok(a, c) == /\ a \in Counts(s, i, 1, 2)
                    /\ IsSpace(At(s, i + a))
                    /\ i + a + 3 <= Len(s)
                    /\ \A k \in (i + a + 1)..(i + a + 3) : IsLetter(CharAt(s, k))
                    /\ IsSpace(At(s, i + a + 4))
                    /\ c \in Counts(s, i + a + 5, 2, 4)
        all == {t \in (1..2) \X (2..4) : ok(t[1], t[2])}
        a1 == Max({t[1] : t \in all})
        c1 == Max({t[2] : t \in {u \in all : u[1] = a1}})
    IN  IF all = {} THEN 0 ELSE a1 + c1 + 5

\* \b(REF|ID|TRXN|TRAN|TRANS|TRN)[\s#:]*\d+\b, letter case ignored: the
\* first alternative after which the rest of the pattern matches
ReferenceLen(s, i) ==
    LET keys == <<"ref", "id", "trxn", "tran", "trans", "trn">>
        rest(k) == RunLen("separator", s, i + Len(k))
        digits(k) == RunLen("digit", s, i + Len(k) + rest(k))
        ok(n) == /\ HasAt(s, i, keys[n])
                 /\ digits(keys[n]) > 0
                 /\ WordBoundary(s, i + Len(keys[n]) + rest(keys[n]) + digits(keys[n]))
        hits == {n \in 1..Len(keys) : ok(n)}
    IN  IF ~WordBoundary(s, i) \/ hits = {} THEN 0
        ELSE Len(keys[Min(hits)]) + rest(keys[Min(hits)]) + digits(keys[Min(hits)])

\* ON\s+\d+\s+[A-Z]{3}
OnDateLen(s, i) ==
    LET blanks == RunLen("space", s, i + 2)
        digits == RunLen("digit", s, i + 2 + blanks)
        more == RunLen("space", s, i + 2 + blanks + digits)
        month == i + 2 + blanks + digits + more
    IN  IF /\ i + 1 <= Len(s)
           /\ SubSeq(s, i, i + 1) = "ON"
           /\ blanks > 0 /\ digits > 0 /\ more > 0
           /\ month + 2 <= Len(s)
           /\ \A k \in month..(month + 2) : InClass("upper", CharAt(s, k))
        THEN blanks + digits + more + 5
        ELSE 0

\* the length of the match of the pattern at position i of s, 0 for none
MatchLen(pattern, s, i) ==
    IF pattern[1] = "reference" THEN ReferenceLen(s, i)
    ELSE IF pattern[1] = "long number"
         THEN IF WordBoundary(s, i) /\ RunLen("digit", s, i) >= 5
                 /\ WordBoundary(s, i + RunLen("digit", s, i))
              THEN RunLen("digit", s, i) ELSE 0
    ELSE IF pattern[1] = "numeric date"
         THEN NumericDateLen(s, i, pattern[2], pattern[3], pattern[4], pattern[5])
    ELSE IF pattern[1] = "named date" THEN NamedDateLen(s, i)
    ELSE IF pattern[1] = "on date" THEN OnDateLen(s, i)
    ELSE IF HasAt(s, i, pattern[2]) /\ WordBoundary(s, i) /\ WordBoundary(s, i + Len(pattern[2]))
         THEN Len(pattern[2]) ELSE 0

\* re.sub(pattern, '', s) from position i on
RECURSIVE Sub(_, _, _)
Sub(pattern, s, i) ==
    IF i > Len(s) THEN ""
    ELSE IF MatchLen(pattern, s, i) > 0 THEN Sub(pattern, s, i + MatchLen(pattern, s, i))
    ELSE CharAt(s, i) \o Sub(pattern, s, i + 1)

\* re.sub for each pattern of the list in turn
RECURSIVE SubEach(_, _)
SubEach(patterns, s) ==
    IF patterns = <<>> THEN s ELSE SubEach(Tail(patterns), Sub(Head(patterns), s, 1))

\* lines 706-729, the tab-delimited layout: the memo after a generic label
delimited(cleaned) ==
    LET tabs == {i \in 1..Len(cleaned) : CharAt(cleaned, i) = "\t"}
        first == Min(tabs)
        later == {i \in tabs : i > first}
        second == IF later = {} THEN Len(cleaned) + 1 ELSE Min(later)
        vendor_part == strip(SubSeq(cleaned, 1, first - 1))
        memo == strip(SubSeq(cleaned, first + 1, second - 1))
        codes == {"DDR", "BGC", "CBP", "BCC", "CPM", "BP", "SO", "DD", "FT"}
        ends == {k \in codes : /\ Len(k) <= Len(memo)
                               /\ SubSeq(memo, Len(memo) - Len(k) + 1, Len(memo)) = k
                               /\ WordBoundary(memo, Len(memo) - Len(k) + 1)}
        longest == CHOOSE k \in ends : \A j \in ends : Len(j) <= Len(k)
        uncoded == IF ends = {} THEN memo
                   ELSE strip(SubSeq(memo, 1, Len(memo) - Len(longest)))
    IN  IF vendor_part \in {"Direct Debit", "Debit", "Card Purchase"}
        THEN strip(Sub(<<"on date">>, uncoded, 1))
        ELSE vendor_part

\* re.search(prefix + r'([A-Za-z0-9\s&]+)', cleaned, re.IGNORECASE) for the
\* prefixes of one rule (cleaned has single blanks): the positions where
\* the pattern matches
PayeeMatches(cleaned, prefixes) ==
    {i \in 1..Len(cleaned) :
        \E k \in prefixes : HasAt(cleaned, i, k) /\ RunLen("payee", cleaned, i + Len(k)) > 0}

\* group(1).strip() of the leftmost match
Payee(cleaned, prefixes) ==
    LET i == Min(PayeeMatches(cleaned, prefixes))
        k == CHOOSE k \in prefixes : HasAt(cleaned, i, k)
    IN  strip(SubSeq(cleaned, i + Len(k), i + Len(k) + RunLen("payee", cleaned, i + Len(k)) - 1))

\* re.search(r'[A-Za-z]{3,}', ref)
ProperName(ref) ==
    \E i \in 1..(Len(ref) - 2) : \A k \in i..(i + 2) : IsLetter(CharAt(ref, k))

\* lines 772-779: each prefix the text starts with is cut, in list order
RECURSIVE StripPrefixes(_, _)
StripPrefixes(prefixes, cleaned) ==
    IF prefixes = <<>> THEN cleaned
    ELSE IF HasAt(cleaned, 1, Head(prefixes))
         THEN StripPrefixes(Tail(prefixes),
                            SubSeq(cleaned, Len(Head(prefixes)) + 1, Len(cleaned)))
    ELSE StripPrefixes(Tail(prefixes), cleaned)

\* (?<![A-Z])SKY(?![A-Z]), letter case ignored
HasSky(cleaned) ==
    \E i \in 1..Len(cleaned) :
        /\ HasAt(cleaned, i, "sky")
        /\ ~IsLetter(At(cleaned, i - 1))
        /\ ~IsLetter(At(cleaned, i + 3))

\* lines 784-827: the merchants looked for, in order, with their labels
merchants == <<
    <<{"amex", "american express"}, "American Express">>,
    <<{"visa", "mastercard", "credit card pmt"}, "Credit Card Payment">>,
    <<{"amazon", "amzn"}, "Amazon">>,
    <<{"tesco"}, "Tesco">>,
    <<{"sainsbury"}, "Sainsbury's">>,
    <<{"asda"}, "Asda">>,
    <<{"aldi"}, "Aldi">>,
    <<{"lidl"}, "Lidl">>,
    <<{"morrisons"}, "Morrisons">>,
    <<{"waitrose"}, "Waitrose">>,
    <<{"ikea"}, "IKEA">>,
    <<{"netflix"}, "Netflix">>,
    <<{"spotify"}, "Spotify">>,
    <<{"british gas", "britishgas"}, "British Gas">>,
    <<{"edf", "e.d.f"}, "EDF Energy">>,
    <<{"thames water", "thameswater"}, "Thames Water">>,
    <<{"tv license", "tvlicense"}, "TV License">>,
    <<{"sky"}, "Sky">>,
    <<{"virgin media", "virginmedia"}, "Virgin Media">>,
    <<{"bt group", "btgroup", "bt.com"}, "BT">>
>>

MerchantsFound(cleaned) ==
    {n \in 1..Len(merchants) :
        IF merchants[n][2] = "Sky" THEN HasSky(cleaned)
        ELSE ContainsAny(lower(cleaned), merchants[n][1])}

\* lines 756-844: the generic cleanup
generic_cleanup(desc, text) ==
    LET numbered == SubEach(<<
            <<"reference">>,
            <<"long number">>,
            <<"numeric date", "/", <<1, 2>>, <<1, 2>>, <<2, 4>>>>,
            <<"numeric date", "-", <<1, 2>>, <<1, 2>>, <<2, 4>>>>,
            <<"numeric date", "-", <<2, 4>>, <<1, 2>>, <<1, 2>>>>,
            <<"named date">> >>, text)
        cleaned == collapse(StripPrefixes(<<
            "payment to ", "payment from ", "purchase at ", "pos purchase ",
            "deposit at ", "atm ", "chq ", "cheque ", "direct deposit ",
            "ach ", "credit ", "debit ", "direct debit to ">>, numbered))
        stripped == strip(SubEach(<<
            <<"word", "purchase">>, <<"word", "payment">>, <<"word", "transfer">>,
            <<"word", "fee">>, <<"word", "interest">>, <<"word", "deposit">>,
            <<"word", "withdrawal">>, <<"word", "refund">>, <<"word", "reversal">>,
            <<"word", "charge">>, <<"word", "credit">>, <<"word", "debit">>,
            <<"word", "transaction">> >>, cleaned))
    IN  IF MerchantsFound(cleaned) # {} THEN merchants[Min(MerchantsFound(cleaned))][2]
        ELSE IF Len(stripped) < 2 THEN collapse(desc)
        ELSE stripped

\* lines 731-754: the rules that return a payee or a reference at once;
\* they fall through to the generic cleanup
early_rules(desc, cleaned) ==
    LET ref == Payee(cleaned, {"ref:"})
    IN  IF Contains(lower(cleaned), "direct debit to bupa") THEN "BUPA Healthcare"
        ELSE IF PayeeMatches(cleaned, {"direct debit to "}) # {}
             THEN Payee(cleaned, {"direct debit to "})
        ELSE IF PayeeMatches(cleaned, {"payment to ", "transfer to "}) # {}
             THEN Payee(cleaned, {"payment to ", "transfer to "})
        ELSE IF PayeeMatches(cleaned, {"ref:"}) # {} /\ ProperName(ref) THEN ref
        ELSE generic_cleanup(desc, cleaned)

\* clean_description(desc), desc a string
clean_description(desc) ==
    IF Contains(collapse(desc), "\t") THEN delimited(collapse(desc))
    ELSE early_rules(desc, collapse(desc))

\* the raw descriptions cleaned on their own
RawDescriptions ==
    {"Direct Debit\tBUPA DDR", "Debit\tGREGGS ON 29 JAN BCC", "Card Purchase\tXYZ CPM",
     "Direct Debit to A", "Direct Debit to BUPA", "Payment to B&Q ltd", "Transfer to &",
     "Ref: abc 1", "Ref: 12", "royal  lunch", "ATM X", "DEBIT", "REF 12345 netflix",
     "01/02/2024 bakery 123456", "POS PURCHASE cafe 1-2-24 fee", "2 JAN 24 pub"}

\* clean_description(desc) called on a raw description
CleanDescription(desc) ==
    /\ call' = [op |-> "clean_description", args |-> <<desc>>,
                result |-> clean_description(desc)]
    /\ UNCHANGED ledger

\* the script is rerun: the value of the call is gone
Rerun ==
    /\ call.op # ""
    /\ call' = NoCall
    /\ UNCHANGED ledger

\* one library call, made when none is pending
LibCall ==
    \/ \E tax_brackets \in TaxTables : \E annual_income \in IncomesFor(tax_brackets) :
          CalculateTax(annual_income, tax_brackets)
    \/ \E frame \in LibFrames, cats \in EditedCategories : Categorize(frame, cats)
    \/ \E description \in VendorDescriptions, subcategory \in VendorHints, amount \in Amounts :
          MatchVendor(description, subcategory, amount)
    \/ \E path \in ParserPaths, raw \in SeqsOf(RawRows, BatchLengths) : Parse(path, raw)
    \/ \E parser \in {"parse_csv debit/credit", "parse_pdf debit/credit"}, credit \in CellValues, debit \in CellValues :
          CombineDebitCredit(parser, credit, debit)
    \/ \E parser \in {"parse_csv single amount", "parse_pdf single amount"}, cell \in AmountCells :
          ParseAmount(parser, cell)
    \/ \E table \in Tables : Sniff(table)
    \/ \E desc \in RawDescriptions : CleanDescription(desc)

LibNext ==
    \/ Rerun
    \/ (call.op = "" /\ LibCall)

LibSpec == Init /\ [][LibNext]_vars

(***************************************************************************)
(* Properties                                                              *)
(***************************************************************************)

\* the step ran lines 144-165 of the import handler
ImportStep ==
    handler' = "Process Statement" /\ imported_statements' # imported_statements

\* the step ran categorize_transactions on a non-empty frame and it returned
CategorizedStep ==
    /\ raised' = ""
    /\ \/ ImportStep
       \/ handler' = "Save Category Changes" /\ Len(transactions) > 0

\* C1: no two transactions of the ledger share the same
\* (date, description, amount) triple, in every reachable state.
C1_LedgerUnique ==
    \A p, q \in Positions(transactions) :
        p # q => DedupKey(transactions[p]) # DedupKey(transactions[q])

\* C2: for the ledger of every reachable state and every parsed batch,
\* importing the batch and then the identical batch again leaves as many
\* transactions as importing it once.
C2_IdempotentDedup ==
    \A frame \in ParsedFrames :
        \A once \in {Import(transactions, columns, imported_statements, categories,
                            "a.csv", now, frame)} :
            \A twice \in {Import(once.transactions, once.columns, once.imported_statements,
                                 categories, "a.csv", now, frame)} :
                (once.raised = "" /\ twice.raised = "")
                    => Len(twice.transactions) = Len(once.transactions)

\* amount >= 0 on a float column: false for NaN
NonNegative(amount) == amount # NaN /\ amount >= 0

\* C3: after categorize_transactions has completed, every transaction whose
\* category is 'Income' has amount >= 0.
C3_IncomeNonNegative ==
    [][CategorizedStep =>
          \A p \in Positions(transactions') :
              transactions'[p].category = "Income" => NonNegative(transactions'[p].amount)]_vars

\* C4: when "Process Statement" ends in its exception handler, the ledger
\* and imported_statements are what they were before the import started.
C4_ImportAllOrNothing ==
    [][(handler' = "Process Statement" /\ raised' # "")
          => (transactions' = transactions /\ imported_statements' = imported_statements)]_vars

\* the transactions and records left by removing the i-th statement, stated
\* row by row: a kept row moves up by the number of removed rows before it,
\* and one record equal to the i-th is gone from the list
RemovedExactly(i) ==
    LET s == imported_statements[i].id
        kept == {p \in Positions(transactions) : transactions[p].statement_id # s}
        Rank(p) == Cardinality({q \in kept : q <= p})
    IN  /\ Len(transactions') = Cardinality(kept)
        /\ \A p \in kept : transactions'[Rank(p)] = transactions[p]
        /\ Len(imported_statements') = Len(imported_statements) - 1
        /\ \E k \in 1..Len(imported_statements) :
              /\ imported_statements[k] = imported_statements[i]
              /\ \A j \in 1..Len(imported_statements) :
                    j # k => imported_statements'[IF j < k THEN j ELSE j - 1]
                                 = imported_statements[j]

\* C5: removing the statement with id s deletes from the ledger exactly the
\* transactions whose statement_id is s and that statement's record, and
\* leaves every other transaction (fields and relative order) and every
\* other record unchanged.
C5_RemovalCascade ==
    [][\A i \in 1..Len(imported_statements) : RemoveStatement(i) => RemovedExactly(i)]_vars

\* a removal has deleted the row labelled 0 and left a row of a fixed-layout
\* statement with its record (a ledger that holds such a row holds a row
\* labelled 0 until a removal deletes it)
C5_Witness ==
    /\ handler = "Remove this statement"
    /\ Len(imported_statements) > 0
    /\ \E p \in Positions(transactions) : transactions[p].raw_subcategory # NoHint
    /\ \A p \in Positions(transactions) :
          /\ transactions[p].idx # 0
          /\ \E j \in 1..Len(imported_statements) :
                imported_statements[j].id = transactions[p].statement_id

\* the rows of df with the triple and the statement_id of row
RowsLike(df, row) ==
    {q \in Positions(df) : DedupKey(df[q]) = DedupKey(row) /\ df[q].statement_id = row.statement_id}

\* C6: an import removes no row that was in the ledger: every triple keeps
\* the rows (and their statement_id) it had before the import.
C6_MergeKeepsLedgerRows ==
    [][(ImportStep /\ raised' = "") =>
          \A p \in Positions(transactions) :
              Cardinality(RowsLike(transactions', transactions[p]))
                  >= Cardinality(RowsLike(transactions, transactions[p]))]_vars

\* date[i] >= date[i+1] on a datetime column: false when either is NaT
DateGE(d, e) == d # NaT /\ e # NaT /\ d >= e

\* C7: in every reachable state the ledger is sorted by date, descending:
\* date[i] >= date[i+1] for adjacent rows.
C7_SortedByDate ==
    \A p \in 1..(Len(transactions) - 1) :
        DateGE(transactions[p].date, transactions[p + 1].date)

\* C8: categorize_transactions never raises on a non-empty frame, and every
\* row it returns has a non-empty category and subcategory.
C8_ClassificationTotal ==
    [][(handler' \in {"Process Statement", "Save Category Changes"}) =>
          /\ raised' # "categorize_transactions"
          /\ \A p \in Positions(transactions') :
                transactions'[p].category # "" /\ transactions'[p].subcategory # ""]_vars

\* the row classified as the only row of a frame
ClassifiedAlone(row, df_columns, cats) ==
    categorize_transactions(<<[row EXCEPT !.idx = 0]>>, df_columns, cats).rows[1]

SamePair(row, other) ==
    row.category = other.category /\ row.subcategory = other.subcategory

\* C9: the pair categorize_transactions assigns to a row depends on that row
\* (and the taxonomy) only: inside the ledger every row gets the pair it gets
\* as the only row of a frame with the same columns.
C9_RowLocalClassification ==
    [][/\ (handler' = "Save Category Changes" /\ raised' = "") =>
              \A p \in Positions(transactions') :
                  SamePair(transactions'[p],
                           ClassifiedAlone(transactions'[p], columns, categories'))
       /\ \A frame \in ParsedFrames :
              (ProcessStatement("a.csv", now', frame) /\ raised' = "") =>
                  \A p \in Positions(transactions') :
                      SamePair(transactions'[p],
                               ClassifiedAlone(transactions'[p],
                                               CombinedColumns(transactions, columns, frame),
                                               categories))]_vars

\* C10: total_income minus total_expenses equals the sum of the raw amounts
\* of the ledger.
C10_Conservation ==
    Len(transactions) > 0 =>
        calculate_summary(transactions).total_income
            - calculate_summary(transactions).total_expenses
        = Sum(AmountsOf(transactions))

(***************************************************************************)
(* Tax properties                                                          *)
(***************************************************************************)
TaxCall == call.op = "calculate_tax_liability"

Max2(a, b) == IF a >= b THEN a ELSE b
Min2(a, b) == IF a <= b THEN a ELSE b

\* sum over brackets of rate * max(0, min(annual_income, max) - min)
RECURSIVE ProgressiveTax(_, _, _)
ProgressiveTax(annual_income, tax_brackets, i) ==
    IF i > Len(tax_brackets) THEN 0
    ELSE tax_brackets[i].rate
            * Max2(0, Min2(annual_income, tax_brackets[i].max) - tax_brackets[i].min)
         + ProgressiveTax(annual_income, tax_brackets, i + 1)

\* first min = 0, each max = next min, last max unbounded
Contiguous(tax_brackets) ==
    /\ tax_brackets[1].min = 0
    /\ \A i \in 1..(Len(tax_brackets) - 1) :
          /\ tax_brackets[i].max = tax_brackets[i + 1].min
          /\ tax_brackets[i].min < tax_brackets[i + 1].min
    /\ tax_brackets[Len(tax_brackets)].max = Infinity

AscendingByMin(tax_brackets) ==
    \A i \in 1..(Len(tax_brackets) - 1) : tax_brackets[i].min <= tax_brackets[i + 1].min

\* C11: for contiguous brackets and a positive income, total_tax is the sum
\* over the brackets of rate * max(0, min(annual_income, max) - min), and
\* effective_rate is total_tax / annual_income * 100
C11_ProgressiveTax ==
    (TaxCall /\ Contiguous(call.args[2]) /\ call.args[1] > 0) =>
        /\ call.result.total_tax = ProgressiveTax(call.args[1], call.args[2], 1)
        /\ call.result.effective_rate = <<call.result.total_tax * 100, call.args[1]>>

\* C12: for brackets sorted ascending by min, with non-negative rates and
\* min <= max, the total tax of an income is at most the total tax of every
\* larger income
C12_TaxMonotone ==
    (TaxCall /\ AscendingByMin(call.args[2])) =>
        \A b \in IncomesFor(call.args[2]) :
            call.args[1] <= b =>
                call.result.total_tax
                    <= calculate_tax_liability(b, call.args[2]).total_tax

\* a table of two brackets that both tax the income, and a larger income
\* that is taxed more
C12_Witness ==
    /\ TaxCall
    /\ AscendingByMin(call.args[2])
    /\ Len(call.result.bracket_breakdown) >= 2
    /\ \E b \in IncomesFor(call.args[2]) :
          /\ call.args[1] < b
          /\ call.result.total_tax < calculate_tax_liability(b, call.args[2]).total_tax

(***************************************************************************)
(* Classification properties                                               *)
(***************************************************************************)
CategorizeCall == call.op = "categorize_transactions"

\* categorize_transactions returned
Categorized == CategorizeCall /\ ~call.result.raised

\* C13: after categorize_transactions, every transaction whose description
\* contains 'payward' has category 'Savings' and subcategory 'Investments'
C13_PaywardOverride ==
    [][CategorizedStep =>
          \A p \in Positions(transactions') :
              Contains(lower(transactions'[p].description), "payward") =>
                  /\ transactions'[p].category = "Savings"
                  /\ transactions'[p].subcategory = "Investments"]_vars

TradingPlatforms == {"etoro", "trading 212", "coinbase", "binance"}

\* C14: after categorize_transactions, every transaction whose description
\* contains a trading-platform name has category 'Investments' and
\* subcategory 'Trading Platform'
C14_TradingPlatformOverride ==
    Categorized =>
        \A p \in Positions(call.result.rows) :
            ContainsAny(lower(call.result.rows[p].description), TradingPlatforms) =>
                /\ call.result.rows[p].category = "Investments"
                /\ call.result.rows[p].subcategory = "Trading Platform"

MatchVendorCall == call.op = "match_vendor"

\* the description as match_vendor matches it
CallDescLower == strip(lower(call.args[1]))

CallSubcatLower == lower(call.args[2])

\* the step-1 overrides: trading platforms and crypto exchanges
StepOneOverride(d) ==
    ContainsAny(d, TradingPlatforms) \/ ContainsAny(d, {"payward", "kraken"})

\* the internal-transfer heuristics that precede the subcategory handlers
InternalTransferHeuristic(d, subcat) ==
    \/ /\ ContainsAny(d, {"jay", "desai", "j n desai"})
       /\ (Contains(subcat, "funds transfer") \/ Contains(d, "ft"))
       /\ (Contains(d, "tax") \/ (~Contains(d, "richard") /\ ~Contains(d, "fairchild")))
    \/ ContainsAny(d, {"instant saver", "savings account", "isa", "current account"})

\* the payee exceptions of the direct-debit handler, in order
DirectDebitExceptions == <<
    <<{"bupa"}, Cat("Healthcare", "Health Insurance")>>,
    <<{"american express", "amex"}, Cat("Bills & Payments", "Credit Card")>>,
    <<{"eyecare"}, Cat("Healthcare", "Vision")>>,
    <<{"aig life"}, Cat("Insurance", "Life Insurance")>>,
    <<{"royal london"}, Cat("Insurance", "Life Insurance")>>,
    <<{"clubwise"}, Cat("Healthcare", "Fitness")>>,
    <<{"etika"}, Cat("Entertainment", "Subscription Services")>> >>

MatchedExceptions(d) ==
    {i \in 1..Len(DirectDebitExceptions) : ContainsAny(d, DirectDebitExceptions[i][1])}

\* (a) the first matching payee exception, else (b) the categorization of a
\* table entry whose pattern occurs in d, else (c) Bills & Payments/Direct Debit
DirectDebitResult(d, result) ==
    IF MatchedExceptions(d) # {}
    THEN result = DirectDebitExceptions[Min(MatchedExceptions(d))][2]
    ELSE IF VendorsContained(d) # {}
         THEN result \in {Categorization(VENDOR_DATABASE[i]) : i \in VendorsContained(d)}
    ELSE result = Cat("Bills & Payments", "Direct Debit")

\* a call with a hint containing 'direct debit' and a description that
\* triggers neither the step-1 overrides nor the internal-transfer heuristics
DirectDebitCall ==
    /\ MatchVendorCall
    /\ call.args[2] # NoHint
    /\ Contains(CallSubcatLower, "direct debit")
    /\ ~StepOneOverride(CallDescLower)
    /\ ~InternalTransferHeuristic(CallDescLower, CallSubcatLower)

\* C15 as stated: every such call returns the first matching payee
\* exception, else a table entry whose pattern occurs in the description,
\* else Bills & Payments/Direct Debit
C15_DirectDebitHandler_Stated ==
    DirectDebitCall => DirectDebitResult(CallDescLower, call.result)

\* C15: every such call with a non-empty description returns the first
\* matching payee exception, else a table entry whose pattern occurs in the
\* description, else Bills & Payments/Direct Debit
C15_DirectDebitHandler ==
    (DirectDebitCall /\ call.args[1] # "") =>
        DirectDebitResult(CallDescLower, call.result)

\* a direct-debit call whose description matches no payee exception and no
\* table entry: the default is returned
C15_Witness ==
    /\ DirectDebitCall
    /\ call.args[1] # ""
    /\ MatchedExceptions(CallDescLower) = {}
    /\ VendorsContained(CallDescLower) = {}
    /\ call.result = Cat("Bills & Payments", "Direct Debit")

(***************************************************************************)
(* Parser properties                                                       *)
(***************************************************************************)
DebitCreditCall == call.op \in {"parse_csv debit/credit", "parse_pdf debit/credit"}

\* C16: with c the parsed credit value and d the parsed debit value
\* (unparsable treated as 0), the normalized amount is c + (-|d|), in the CSV
\* path and in the PDF path
C16_DebitCreditNormalization ==
    DebitCreditCall =>
        call.result = FillNa(call.args[1]) + (-1 * Abs(FillNa(call.args[2])))

ParseCall == call.op = "parse"

\* C17: every row of the frame a parser returns, on every return path, has a
\* valid date and a numeric amount
C17_RowValidity ==
    (ParseCall /\ ~call.result.raised) =>
        \A p \in Positions(call.result.rows) :
            /\ call.result.rows[p].date # NaT
            /\ call.result.rows[p].amount # NaN

\* C18: for a frame of the fixed Barclays layout, the subcategory argument
\* categorize_transactions passes to match_vendor for a row is the value of
\* the row's Subcategory column
C18_SourceHintPropagation ==
    (CategorizeCall /\ "raw_subcategory" \in call.args[1].columns) =>
        \A p \in Positions(call.args[1].rows) :
            call.hints[p].called =>
                call.hints[p].subcategory = call.args[1].rows[p].raw_subcategory

(***************************************************************************)
(* Deletion                                                                *)
(***************************************************************************)
\* the step leaves fewer rows with the triple and statement_id of row
Disappears(row) ==
    Cardinality(RowsLike(transactions', row)) < Cardinality(RowsLike(transactions, row))

\* the step is the removal of a statement with the given id
RemovalOf(statement_id) ==
    \E i \in 1..Len(imported_statements) :
        imported_statements[i].id = statement_id /\ RemoveStatement(i)

\* C19: a transaction disappears from the ledger only in the removal of the
\* statement whose id is its statement_id, and a record of
\* imported_statements disappears only in the removal of a statement
C19_SingleDeletionPath ==
    [][/\ \A p \in Positions(transactions) :
             Disappears(transactions[p]) => RemovalOf(transactions[p].statement_id)
       /\ Len(imported_statements') < Len(imported_statements) =>
             \E i \in 1..Len(imported_statements) : RemoveStatement(i)]_vars

(***************************************************************************)
(* Order of the fallbacks                                                  *)
(***************************************************************************)
\* match_vendor's answer for the description is the candidate of its
\* token-overlap pass: no earlier rule and no direct lookup of the vendor
\* table decides
TokenOverlapDecides(description, subcategory) ==
    /\ VendorsWholeWord(strip(lower(description))) = {}
    /\ VendorsMultiWord(strip(lower(description))) = {}
    /\ PartialMatch(split(strip(lower(description)))).score > 0
    /\ match_vendor(description, subcategory, NaN)
           = PartialMatch(split(strip(lower(description)))).match

TokenOverlapOf ==
    [d \in ClassifiedDescriptions |-> [h \in PassedHints |-> TokenOverlapDecides(d, h)]]

\* the row at position p of the frame went through the vendor table without
\* a direct match, the keyword-scored fallback has a category for it and
\* the token-overlap pass has a vendor for it
BothFallbacksApply(p) ==
    /\ call.hints[p].called
    /\ call.hints[p].subcategory \in PassedHints
    /\ TokenOverlapOf[call.args[1].rows[p].description][call.hints[p].subcategory]
    /\ KeywordMatchOf[call.args[1].rows[p].description][call.args[2]].category # ""

\* C20: a row for which the keyword-scored fallback has a category and the
\* token-overlap fallback has a vendor is returned with the keyword-scored
\* category
C20_FallbackOrdering ==
    Categorized =>
        \A p \in Positions(call.args[1].rows) :
            BothFallbacksApply(p) =>
                call.result.rows[p].category =
                    KeywordMatchOf[call.args[1].rows[p].description][call.args[2]].category

(***************************************************************************)
(* Terminal default                                                        *)
(***************************************************************************)
\* no rule matches the row at position p of the classified frame: the
\* pre-pass leaves it Uncategorized/Other, match_vendor returns None for it
\* and no category scores a keyword
NoRuleMatches(p) ==
    /\ call.hints[p].called
    /\ call.hints[p].subcategory \in PassedHints
    /\ PrePassOf[call.args[1].rows[p].description][call.args[1].rows[p].amount]
           = Cat("Uncategorized", "Other")
    /\ VendorMatchOf[call.args[1].rows[p].description][call.hints[p].subcategory] = NoMatch
    /\ KeywordMatchOf[call.args[1].rows[p].description][call.args[2]].category = ""

\* C21: a row matched by no rule is returned as Income/Other Income when
\* its amount is non-negative (zero included) and as Uncategorized/Other
\* when its amount is negative
C21_SignDefault ==
    Categorized =>
        \A p \in Positions(call.args[1].rows) :
            NoRuleMatches(p) =>
                IF call.args[1].rows[p].amount >= 0
                THEN /\ call.result.rows[p].category = "Income"
                     /\ call.result.rows[p].subcategory = "Other Income"
                ELSE /\ call.result.rows[p].category = "Uncategorized"
                     /\ call.result.rows[p].subcategory = "Other"

(***************************************************************************)
(* Direct lookup of the vendor table                                       *)
(***************************************************************************)
\* the description makes match_vendor infer a subcategory handler
InfersHandler(d) ==
    ContainsAny(d, {"ddr", "direct debit", " dd", "bcc", "card purchase", "cpm"})

\* match_vendor was called without a source hint on a description that
\* triggers no override, no internal-transfer heuristic, no inferred
\* handler and not the refund case
DirectLookupCall ==
    /\ MatchVendorCall
    /\ call.args[2] = NoHint
    /\ call.args[1] # ""
    /\ ~StepOneOverride(CallDescLower)
    /\ ~InternalTransferHeuristic(CallDescLower, "")
    /\ ~Contains(CallDescLower, "instant saver")
    /\ ~(Contains(CallDescLower, "saver") /\ Contains(CallDescLower, "tax"))
    /\ ~InfersHandler(CallDescLower)
    /\ ~Contains(CallDescLower, "refund")

\* C22: on such a call, when some pattern of the vendor table occurs in the
\* description as a whole word, the result is the categorization of the
\* first such pattern in table order; no other keyword check comes first
C22_DirectLookup ==
    (DirectLookupCall /\ VendorsWholeWord(CallDescLower) # {}) =>
        call.result = FirstVendor(VendorsWholeWord(CallDescLower))

(***************************************************************************)
(* Single amount column                                                    *)
(***************************************************************************)
ParseAmountCall == call.op \in {"parse_csv single amount", "parse_pdf single amount"}

\* the digits of a cell once currency symbols, separators and blanks are
\* stripped, when they are digits
Magnitude(text) == IF AllDigits(text) THEN DigitsValue(text) ELSE NaN

\* the amount a marked cell denotes: '(x)' is -x, 'xCR' is x, 'xDR' is -x;
\* NaN when the cell carries none of the marks around a number
MarkedValue(cell) ==
    LET text == RemoveChars(cell, {",", "$", " "})
        n == Len(text)
        inner == IF n > 2 THEN SubSeq(text, 2, n - 1) ELSE ""
        front == IF n > 2 THEN SubSeq(text, 1, n - 2) ELSE ""
        mark == IF n > 2 THEN SubSeq(text, n - 1, n) ELSE ""
    IN  IF n > 2 /\ CharAt(text, 1) = "(" /\ CharAt(text, n) = ")" /\ AllDigits(inner)
        THEN -1 * Magnitude(inner)
        ELSE IF mark = "CR" /\ AllDigits(front) THEN Magnitude(front)
        ELSE IF mark = "DR" /\ AllDigits(front) THEN -1 * Magnitude(front)
        ELSE NaN

\* C23: a cell of a single amount column that is parenthesized or carries a
\* trailing CR or DR is parsed, in the CSV and in the PDF path, to the
\* amount it denotes, and its row is kept
C23_MarkedAmounts ==
    (ParseAmountCall /\ MarkedValue(call.args[1]) # NaN) =>
        call.result = MarkedValue(call.args[1])

(***************************************************************************)
(* Schema sniffing                                                         *)
(***************************************************************************)
SniffCall == call.op = "parse_csv sniff"

\* the later passes left a role as the earlier pass resolved it
KeptFrom(before, after) ==
    /\ before.date # <<>> => after.date = before.date
    /\ before.description # <<>> => after.description = before.description
    /\ before.amount # <<>> => after.amount = before.amount

\* C24: a role the name-based pass resolved is neither replaced nor
\* extended by the content-based or the positional pass, and a role the
\* content-based pass resolved is left alone by the positional pass
C24_StagedSniffing ==
    SniffCall =>
        /\ KeptFrom(call.result.named, call.result.content)
        /\ KeptFrom(call.result.named, call.result.roles)
        /\ KeptFrom(call.result.content, call.result.roles)

\* the columns parse_csv selects: date_columns[0], description_columns[0]
\* and the amount columns
date_col == call.result.roles.date[1]

description_col == call.result.roles.description[1]

\* C30: whenever the sniffing ends with every role filled, the date column,
\* the description column and the amount columns are pairwise distinct
C30_RoleDistinctness ==
    (SniffCall /\ AllResolved(call.result.roles)) =>
        /\ date_col # description_col
        /\ ~InSeq(date_col, call.result.roles.amount)
        /\ ~InSeq(description_col, call.result.roles.amount)

(***************************************************************************)
(* Description cleaning                                                    *)
(***************************************************************************)
CleanCall == call.op = "clean_description"

\* the raw text is '<label><TAB><memo>' with one of the generic labels
LabelledMemo(desc) ==
    \E label \in {"Direct Debit", "Debit", "Card Purchase"} :
        /\ Len(desc) > Len(label) + 1
        /\ SubSeq(desc, 1, Len(label) + 1) = label \o "\t"

\* C25: for a raw description '<label><TAB><memo>' clean_description
\* returns the memo, without its trailing reference code and without an
\* 'ON <day> <MON>' fragment
C25_DelimitedMemo ==
    (CleanCall /\ LabelledMemo(call.args[1])) =>
        call.result = delimited(call.args[1])

\* C26: clean_description returns a string of at least 2 characters or
\* the whitespace-collapsed original, on every return path
C26_OverStrippingGuard ==
    CleanCall =>
        \/ Len(call.result) >= 2
        \/ call.result = collapse(call.args[1])

(***************************************************************************)
(* Recategorization and the fields of a transaction                        *)
(***************************************************************************)
\* the fields of a transaction that are set when it is created
Immutable(row) == <<row.date, row.description, row.amount, row.statement_id>>

CountOf(df, fields) == Cardinality({p \in Positions(df) : Immutable(df[p]) = fields})

\* the id of the batch the step imported
ImportedId == imported_statements'[Len(imported_statements')].id

\* every transaction of the ledger after the step that the step did not
\* import was in the ledger before it with the same four fields
FieldsKept ==
    \A p \in Positions(transactions') :
        \/ ImportStep /\ transactions'[p].statement_id = ImportedId
        \/ CountOf(transactions', Immutable(transactions'[p]))
               <= CountOf(transactions, Immutable(transactions'[p]))

\* the step wrote one (category, subcategory) pair of the taxonomy to the
\* rows with description d and left every other row and field as it was
Recategorized(d) ==
    /\ Len(transactions') = Len(transactions)
    /\ \E c \in DOMAIN categories :
          \E i \in 1..Len(categories[c]) :
              \A p \in Positions(transactions) :
                  transactions'[p] =
                      IF transactions[p].description = d
                      THEN [transactions[p] EXCEPT !.category = c,
                                                   !.subcategory = categories[c][i]]
                      ELSE transactions[p]

\* C27: 'Apply New Category' sets category and subcategory of exactly the
\* rows with the selected description and changes nothing else, and no
\* step changes date, description, amount or statement_id of a transaction
\* that stays in the ledger
C27_RecategorizationFrame ==
    [][/\ handler' = "Apply New Category" =>
             /\ \E p \in Positions(transactions) : Recategorized(transactions[p].description)
             /\ UNCHANGED <<columns, imported_statements, categories>>
       /\ FieldsKept]_vars

\* a recategorization has changed the rows of one description and left a
\* row with another description, in another category, in the ledger
C27_Witness ==
    /\ handler = "Apply New Category"
    /\ \E p, q \in Positions(transactions) :
          /\ transactions[p].description = "lunch"
          /\ transactions[p].category = "Income" /\ transactions[p].subcategory = "Salary"
          /\ transactions[q].description # "lunch"
          /\ transactions[q].category # "Income"

\* the pair the recategorization form writes; no rule of the classifier
\* gives it to a description of the ledger
ManuallySet(row) == row.category = "Income" /\ row.subcategory = "Salary"

\* C28: the rows a recategorization has set keep their (category,
\* subcategory) pair through every later successful import and every
\* 'Save Category Changes'
C28_RecategorizationDurable ==
    [][CategorizedStep =>
          \A p \in Positions(transactions) :
              ManuallySet(transactions[p]) =>
                  \A q \in Positions(transactions') :
                      Immutable(transactions'[q]) = Immutable(transactions[p]) =>
                          ManuallySet(transactions'[q])]_vars

(***************************************************************************)
(* Batch metadata                                                          *)
(***************************************************************************)
\* the rows of df owned by the batch with the given id
OwnedBy(df, id) == {p \in Positions(df) : df[p].statement_id = id}

\* C29: the record an import appends counts the rows the ledger holds for
\* its id at the end of that import, every transaction of the ledger
\* belongs to a record of imported_statements, and no record owns no row
C29_BatchMetadata ==
    [][/\ ImportStep =>
             imported_statements'[Len(imported_statements')].transaction_count
                 = Cardinality(OwnedBy(transactions', ImportedId))
       /\ \A p \in Positions(transactions') :
             \E k \in 1..Len(imported_statements') :
                 imported_statements'[k].id = transactions'[p].statement_id
       /\ \A k \in 1..Len(imported_statements') :
             OwnedBy(transactions', imported_statements'[k].id) # {}]_vars

==============================================================================
